---- MODULE Spec2Model ----
(***************************************************************************)
(* A model of the World of pfirsich/cpp-ecs: the entity registry (masks,   *)
(* valid flags, min-heap free list), the paged component pools and the     *)
(* system dispatcher (tickSystem / waitForSystems / finishTick).           *)
(*                                                                         *)
(* Vectors of the program are 0-based functions (domain 0..n-1), a         *)
(* ComponentMask is the set of the component ids whose bits are set, and   *)
(* an assert() that fails aborts the process (pc = "aborted").             *)
(***************************************************************************)
EXTENDS Integers, Sequences, FiniteSets, TLC

\* ---------------------------------------------------------------- bounds
MaxEntities == 3      \* cap on getEntityCount()
MaxCalls == 6         \* cap on the number of World calls the caller makes
NumComponents == 2    \* component types that are ever touched
BlockSize == 2        \* T::BLOCK_SIZE of the component types
MaxValue == 2         \* constructor arguments are drawn from 1..MaxValue
MaxDispatches == 2    \* cap on the number of tickSystem calls of a run
NumThreads == 2       \* threads that call the locked World functions concurrently
NumUnits == 2         \* translation units that include ecs.hpp and name component types
MaxElsewhere == 1     \* cap on the component types first used in a unit other than unit 1
MaxSetup == 4         \* in runs with systems the caller changes the registry within its first MaxSetup calls
MaxLockedCalls == 5   \* cap on the calls the threads make to the locked functions
MaxRecall == 2        \* how far back a repeated componentId::get may reach
MaxStoring == 5       \* cap on the calls of the runs that follow the stored component values
MaxList == 2          \* cap on the length of the component type list of a dispatch
MaxQueries == 3       \* cap on the type lists a run computes masks for
MaxPrepare == 3       \* in runs with locking callables the caller changes the registry within its first MaxPrepare calls

Comps == 0 .. (NumComponents - 1)
Values == 1 .. MaxValue
Uninit == 0           \* a slot of raw storage that holds no object

\* ------------------------------------------------------- std::vector
Size(v) == Cardinality(DOMAIN v)
EmptyVec == [i \in {} |-> 0]
Push(v, x) == [i \in 0 .. Size(v) |-> IF i < Size(v) THEN v[i] ELSE x]
Min(S) == CHOOSE x \in S : \A y \in S : x <= y

\* ------------------------------------- std::priority_queue, std::greater
\* The heap is kept as its elements in ascending order; top() is the head.
PQEmpty(q) == q = <<>>
PQTop(q) == Head(q)
PQPopLast(q) == SubSeq(q, 1, Len(q) - 1)
PQPop(q) == Tail(q)
PQPushDescending(q, x) ==
    LET lo == SelectSeq(q, LAMBDA y : y > x)
        hi == SelectSeq(q, LAMBDA y : y <= x)
    IN  lo \o <<x>> \o hi
PQPush(q, x) ==
    LET lo == SelectSeq(q, LAMBDA y : y <= x)
        hi == SelectSeq(q, LAMBDA y : y > x)
    IN  lo \o <<x>> \o hi
PQElems(q) == {q[i] : i \in 1 .. Len(q)}

\* ------------------------------------------------------- ComponentPool
NewBlock == [data |-> FALSE, occupied |-> {}, mem |-> [o \in 0 .. (BlockSize - 1) |-> Uninit]]
NewPool == [alloc |-> TRUE, mBlocks |-> EmptyVec]
NoPool == [alloc |-> FALSE, mBlocks |-> EmptyVec]   \* a null mPools[compId]

getIndices(e) == <<e \div BlockSize, e % BlockSize>>

Resize(blocks, n) ==
    [i \in 0 .. (n - 1) |-> IF i < Size(blocks) THEN blocks[i] ELSE NewBlock]

PoolHas(pool, e) ==
    LET bi == getIndices(e)[1]
        ci == getIndices(e)[2]
    IN  Size(pool.mBlocks) > bi /\ ci \in pool.mBlocks[bi].occupied

\* ComponentPool::add after its assert(!has(entityId))
PoolAdd(pool, e, v) ==
    LET bi == getIndices(e)[1]
        ci == getIndices(e)[2]
        grown == IF Size(pool.mBlocks) < bi + 1 THEN Resize(pool.mBlocks, bi + 1)
                 ELSE pool.mBlocks
        blk == grown[bi]
    IN  [alloc |-> TRUE, mBlocks |-> [grown EXCEPT ![bi] =
            [data |-> TRUE,
             occupied |-> blk.occupied \cup {ci},
             mem |-> [blk.mem EXCEPT ![ci] = v]]]]

\* checkBlockUsage that releases the storage of the block whatever it holds
checkBlockUsageAlways(blk) ==
    [blk EXCEPT !.data = FALSE, !.mem = [o \in 0 .. (BlockSize - 1) |-> Uninit]]
\* checkBlockUsage that never releases the storage of a block
checkBlockUsageKeep(blk) == blk
checkBlockUsage(blk) ==
    IF blk.occupied = {}
    THEN [blk EXCEPT !.data = FALSE, !.mem = [o \in 0 .. (BlockSize - 1) |-> Uninit]]
    ELSE blk

\* ComponentPool::remove that drops the Block record of an emptied last block
PoolRemoveShrink(pool, e) ==
    LET bi == getIndices(e)[1]
        ci == getIndices(e)[2]
        blk == pool.mBlocks[bi]
        left == blk.occupied \ {ci}
    IN  IF left = {} /\ bi = Size(pool.mBlocks) - 1
        THEN [alloc |-> TRUE, mBlocks |-> Resize(pool.mBlocks, bi)]
        ELSE [alloc |-> TRUE, mBlocks |-> [pool.mBlocks EXCEPT ![bi] =
                 checkBlockUsage([blk EXCEPT !.occupied = left,
                                             !.mem = [blk.mem EXCEPT ![ci] = Uninit]])]]
\* ComponentPool::remove after its assert(has(entityId))
PoolRemove(pool, e) ==
    LET bi == getIndices(e)[1]
        ci == getIndices(e)[2]
        blk == pool.mBlocks[bi]
    IN  [alloc |-> TRUE, mBlocks |-> [pool.mBlocks EXCEPT ![bi] =
            checkBlockUsage([blk EXCEPT !.occupied = blk.occupied \ {ci},
                                        !.mem = [blk.mem EXCEPT ![ci] = Uninit]])]]

\* ComponentPool::get after its assert(has(entityId))
PoolGet(pool, e) == pool.mBlocks[getIndices(e)[1]].mem[getIndices(e)[2]]

\* ------------------------------------------------------------- state
VARIABLES
    mComponentMasks,    \* vector: entity id -> set of component ids
    mEntityValid,       \* vector: entity id -> BOOLEAN
    mEntityIdFreeList,  \* min-heap of recycled ids
    mPools,             \* component id -> pool (NoPool while unallocated)
    mRunningSystems,    \* sequence of RunningSystem records
    dispatches,         \* n -> the execution of the n-th tickSystem call (its iterator, its thread);
                        \*   pending: the ids a parallel for_each has fetched and not yet processed;
                        \*   ghost fields: visited, order (the ids tickEntity was called on),
                        \*   match0 (the ids that qualified when the for_each began),
                        \*   joinedBy and joiner (the tickSystem call that joined it)
    main,               \* the calling thread: its position inside a World call
    pc,                 \* "run", "aborted" (assert), "terminated" (std::terminate), "destroyed"
    objects,            \* ghost: <<component id, entity id>> of constructed, not yet destructed instances
    live,               \* ghost: ids returned by createEntity and not destroyed since
    fresh,              \* ghost: live ids created after the last flush that covered them
    spawned,            \* ghost: <<id, n>>: live id created by the callable of dispatch n in this tick
    matured,            \* ghost: <<id, n>>: live id created by the callable of dispatch n in an earlier tick
    visit,              \* ghost: the last invocation of a system callable; gone: the last
                        \*   call of tickEntity was on an id that was not live
    last,               \* ghost: the last World call and what it returned
    calls,              \* ghost: number of World calls the caller has made
    rt,                 \* ghost: progress of an add / remove / add round trip on (last.e, last.c)
    handles,            \* the EntityHandles the caller keeps: their mId
    mMutex,             \* 0 while unlocked, else the thread that holds the lock
    threads,            \* thread -> the World function it is inside, with its arguments
    idCounter,          \* componentId::idCounter
    typeIds,            \* component type -> the static id of componentId::get<type>, None before first use
    firstUse,           \* ghost: the component types in the order of their first use
    peak,               \* ghost: the largest number of entities that were live at the same time
    query               \* ghost: the last component type list masks were computed for, and the masks

vars == <<mComponentMasks, mEntityValid, mEntityIdFreeList, mPools, mRunningSystems,
          dispatches, main, pc, objects, live, fresh, spawned, matured, visit, last, calls, rt,
          handles, mMutex, threads, idCounter, typeIds, firstUse, peak, query>>

\* The registry and the pools as one value, so that a callable can chain calls.
World == [masks |-> mComponentMasks, valid |-> mEntityValid, free |-> mEntityIdFreeList,
          pools |-> mPools, objects |-> objects, live |-> live, fresh |-> fresh,
          spawned |-> spawned, matured |-> matured, peak |-> peak]

SetWorld(W) ==
    /\ mComponentMasks' = W.masks
    /\ mEntityValid' = W.valid
    /\ mEntityIdFreeList' = W.free
    /\ mPools' = W.pools
    /\ objects' = W.objects
    /\ live' = W.live
    /\ fresh' = W.fresh
    /\ spawned' = W.spawned
    /\ matured' = W.matured
    /\ peak' = W.peak

getEntityCount(W) == Size(W.masks)

\* ------------------------------------------------------ World operations
\* Each returns [w |-> the world after the call, ok |-> no assert failed, ret |-> result].

\* ghost: the peak of the live count once id is live as well
Peak(W, id) ==
    IF Cardinality(W.live \cup {id}) > W.peak THEN Cardinality(W.live \cup {id}) ELSE W.peak

\* createEntity that leaves the valid flag of a recycled slot as it is
createEntityKeepValid(W) ==
    IF PQEmpty(W.free)
    THEN [w |-> [W EXCEPT !.masks = Push(@, {}), !.valid = Push(@, FALSE),
                          !.live = @ \cup {Size(W.masks)}, !.fresh = @ \cup {Size(W.masks)},
                          !.peak = Peak(W, Size(W.masks))],
          ok |-> TRUE, ret |-> Size(W.masks)]
    ELSE LET entityId == PQTop(W.free)
         IN  [w |-> [W EXCEPT !.free = PQPop(@), !.masks[entityId] = {},
                              !.live = @ \cup {entityId}, !.fresh = @ \cup {entityId},
                              !.peak = Peak(W, entityId)],
              ok |-> TRUE, ret |-> entityId]
\* createEntity whose entity is valid at once
createEntityValid(W) ==
    IF PQEmpty(W.free)
    THEN [w |-> [W EXCEPT !.masks = Push(@, {}), !.valid = Push(@, TRUE),
                          !.live = @ \cup {Size(W.masks)}, !.fresh = @ \cup {Size(W.masks)},
                          !.peak = Peak(W, Size(W.masks))],
          ok |-> TRUE, ret |-> Size(W.masks)]
    ELSE LET entityId == PQTop(W.free)
         IN  [w |-> [W EXCEPT !.free = PQPop(@), !.masks[entityId] = {},
                              !.valid[entityId] = TRUE,
                              !.live = @ \cup {entityId}, !.fresh = @ \cup {entityId},
                              !.peak = Peak(W, entityId)],
              ok |-> TRUE, ret |-> entityId]
\* createEntity that never looks at the free list
createEntityAlwaysAppend(W) ==
    [w |-> [W EXCEPT !.masks = Push(@, {}), !.valid = Push(@, FALSE),
                     !.live = @ \cup {Size(W.masks)}, !.fresh = @ \cup {Size(W.masks)},
                     !.peak = Peak(W, Size(W.masks))],
     ok |-> TRUE, ret |-> Size(W.masks)]
createEntity(W) ==
    IF PQEmpty(W.free)
    THEN [w |-> [W EXCEPT !.masks = Push(@, {}), !.valid = Push(@, FALSE),
                          !.live = @ \cup {Size(W.masks)}, !.fresh = @ \cup {Size(W.masks)},
                          !.peak = Peak(W, Size(W.masks))],
          ok |-> TRUE, ret |-> Size(W.masks)]
    ELSE LET entityId == PQTop(W.free)
         IN  IF entityId < Size(W.masks) /\ entityId < Size(W.valid)
             THEN [w |-> [W EXCEPT !.free = PQPop(@), !.masks[entityId] = {},
                                   !.valid[entityId] = FALSE,
                                   !.live = @ \cup {entityId}, !.fresh = @ \cup {entityId},
                                   !.peak = Peak(W, entityId)],
                   ok |-> TRUE, ret |-> entityId]
             ELSE [w |-> [W EXCEPT !.free = PQPop(@)], ok |-> FALSE, ret |-> entityId]

hasComponents(W, e, mask) == (W.masks[e] \cap mask) = mask

getPool(W, c) == IF W.pools[c].alloc THEN W.pools[c] ELSE NewPool

\* The loop of destroyEntity over compId, from compId = c on.
RECURSIVE destroyLoop(_, _, _)
destroyLoop(W, e, c) ==
    IF c >= NumComponents THEN [w |-> W, ok |-> TRUE]
    ELSE IF W.pools[c].alloc /\ c \in W.masks[e]
         THEN IF PoolHas(W.pools[c], e)
              THEN destroyLoop([W EXCEPT !.pools[c] = PoolRemove(@, e),
                                         !.objects = @ \ {<<c, e>>}], e, c + 1)
              ELSE [w |-> W, ok |-> FALSE]
         ELSE destroyLoop(W, e, c + 1)

\* destroyEntity that also clears the valid flag of the entity
destroyEntityInvalidate(W, e) ==
    LET r == destroyLoop(W, e, 0)
    IN  IF ~r.ok THEN [w |-> r.w, ok |-> FALSE, ret |-> e]
        ELSE [w |-> [r.w EXCEPT !.masks[e] = {}, !.valid[e] = FALSE, !.free = PQPush(@, e),
                                !.live = @ \ {e}, !.fresh = @ \ {e},
                                !.spawned = {p \in @ : p[1] # e},
                                !.matured = {p \in @ : p[1] # e}],
              ok |-> TRUE, ret |-> e]
\* destroyEntity that leaves the mask of the entity as it is
destroyEntityKeepMask(W, e) ==
    LET r == destroyLoop(W, e, 0)
    IN  IF ~r.ok THEN [w |-> r.w, ok |-> FALSE, ret |-> e]
        ELSE [w |-> [r.w EXCEPT !.free = PQPush(@, e),
                                !.live = @ \ {e}, !.fresh = @ \ {e},
                                !.spawned = {p \in @ : p[1] # e},
                                !.matured = {p \in @ : p[1] # e}],
              ok |-> TRUE, ret |-> e]
destroyEntity(W, e) ==
    LET r == destroyLoop(W, e, 0)
    IN  IF ~r.ok THEN [w |-> r.w, ok |-> FALSE, ret |-> e]
        ELSE [w |-> [r.w EXCEPT !.masks[e] = {}, !.free = PQPush(@, e),
                                !.live = @ \ {e}, !.fresh = @ \ {e},
                                !.spawned = {p \in @ : p[1] # e},
                                !.matured = {p \in @ : p[1] # e}],
              ok |-> TRUE, ret |-> e]

addComponent(W, e, c, v) ==
    IF ~(Size(W.masks) > e) \/ hasComponents(W, e, {c})
    THEN [w |-> W, ok |-> FALSE, ret |-> Uninit]
    ELSE LET W1 == [W EXCEPT !.masks[e] = @ \cup {c}, !.pools[c] = getPool(W, c)]
         IN  IF PoolHas(W1.pools[c], e)
             THEN [w |-> W1, ok |-> FALSE, ret |-> Uninit]
             ELSE [w |-> [W1 EXCEPT !.pools[c] = PoolAdd(@, e, v),
                                    !.objects = @ \cup {<<c, e>>}],
                   ok |-> TRUE, ret |-> v]

removeComponent(W, e, c) ==
    LET W1 == [W EXCEPT !.pools[c] = getPool(W, c)]
    IN  IF ~PoolHas(W1.pools[c], e)
        THEN [w |-> W1, ok |-> FALSE, ret |-> Uninit]
        ELSE [w |-> [W1 EXCEPT !.pools[c] = PoolRemove(@, e),
                               !.objects = @ \ {<<c, e>>}],
              ok |-> TRUE, ret |-> Uninit]

\* getComponent without its assertions: it hands out whatever the slot holds
getComponentUnchecked(W, e, c) ==
    [w |-> W, ok |-> TRUE,
     ret |-> IF W.pools[c].alloc /\ PoolHas(W.pools[c], e) THEN PoolGet(W.pools[c], e) ELSE Uninit]
getComponent(W, e, c) ==
    IF ~(Size(W.masks) > e) \/ ~hasComponents(W, e, {c}) \/ ~W.pools[c].alloc
       \/ ~PoolHas(W.pools[c], e)
    THEN [w |-> W, ok |-> FALSE, ret |-> Uninit]
    ELSE [w |-> W, ok |-> TRUE, ret |-> PoolGet(W.pools[c], e)]

flushNothing(W) == [W EXCEPT !.fresh = {}]
flushAll(W) == [W EXCEPT !.valid = [i \in DOMAIN W.valid |-> TRUE], !.fresh = {}]

\* flush(entityId) that marks every entity valid
flushIdEvery(W, e) == [W EXCEPT !.valid = [i \in DOMAIN W.valid |-> TRUE], !.fresh = {}]
flushId(W, e) == [W EXCEPT !.valid[e] = TRUE, !.fresh = @ \ {e}]

isValid(W, e) == W.valid[e]

\* ------------------------------------------------------ ghost bookkeeping
None == -1

NoCall == [op |-> "none", n |-> 0, e |-> None, c |-> None, v |-> Uninit, ok |-> TRUE, ret |-> None,
           free0 |-> <<>>, count0 |-> 0, mask0 |-> {}, valid0 |-> FALSE]

\* no masks were computed yet
NoQuery == [components |-> <<>>, readMask |-> {}, writeMask |-> {}, fullMask |-> {}]

\* The record of a call: the result r, and the parts of the state before the call
\* that the call's contract speaks about (for createEntity: the free list, the
\* entity count, and the mask and valid flag of the slot it recycles; for flush:
\* whether every valid flag was set already).
Called(op, e, c, v, r) ==
    [op |-> op, n |-> 0, e |-> e, c |-> c, v |-> v, ok |-> r.ok, ret |-> r.ret,
     free0 |-> IF op = "create" THEN mEntityIdFreeList ELSE <<>>,
     count0 |-> IF op = "create" THEN Size(mComponentMasks) ELSE 0,
     mask0 |-> IF op = "destroy" THEN mComponentMasks[e]
               ELSE IF op = "create" /\ ~PQEmpty(mEntityIdFreeList)
                       /\ PQTop(mEntityIdFreeList) < Size(mComponentMasks)
                    THEN mComponentMasks[PQTop(mEntityIdFreeList)] ELSE {},
     valid0 |-> IF op = "flush" THEN \A i \in DOMAIN mEntityValid : mEntityValid[i]
                ELSE op = "create" /\ ~PQEmpty(mEntityIdFreeList)
                     /\ PQTop(mEntityIdFreeList) < Size(mEntityValid)
                     /\ mEntityValid[PQTop(mEntityIdFreeList)]]

Outcome(r) == IF r.ok THEN "run" ELSE "aborted"

\* an EntityHandle is its mId; the caller keeps the handle destroy() was called
\* on (own) and a copy of it taken before (copy); target is the id destroyed and
\* given tells that the id has got a component since
INVALID_ENTITY == -1    \* the largest EntityId (all bits set): no vector size exceeds it
NoHandle == [own |-> None, copy |-> None, target |-> None, given |-> FALSE]

Threads == 1 .. NumThreads
IdleThread == [state |-> "idle", op |-> "none", e |-> None, c |-> None]

MAX_COMPONENTS == 64
\* the component types of a program, one more than there are mask bits
Types == 0 .. MAX_COMPONENTS
\* idCounter is declared static at namespace scope in the header, so every
\* translation unit that includes it has an idCounter of its own
Units == 1 .. NumUnits

\* World::getComponentMask; mId is unsigned, INVALID_ENTITY is below no size
getComponentMask(W, entityId) ==
    IF entityId = INVALID_ENTITY \/ ~(Size(W.masks) > entityId)
    THEN [ok |-> FALSE, ret |-> {}]
    ELSE [ok |-> TRUE, ret |-> W.masks[entityId]]

\* EntityHandle::operator bool of a handle with mId = id
HandleBool(W, id) ==
    [ok |-> getComponentMask(W, id).ok, ret |-> getComponentMask(W, id).ret # {}]

IdleMain == [state |-> "idle", n |-> 0, k |-> 0, flush |-> FALSE]
NoVisit == [n |-> 0, id |-> None, fresh |-> FALSE, own |-> FALSE, gone |-> FALSE]

Init ==
    /\ mComponentMasks = EmptyVec
    /\ mEntityValid = EmptyVec
    /\ mEntityIdFreeList = <<>>
    /\ mPools = [c \in Comps |-> NoPool]
    /\ mRunningSystems = <<>>
    /\ dispatches = <<>>
    /\ main = IdleMain
    /\ pc = "run"
    /\ objects = {}
    /\ live = {}
    /\ fresh = {}
    /\ spawned = {}
    /\ matured = {}
    /\ visit = NoVisit
    /\ last = NoCall
    /\ calls = 0
    /\ rt = 0
    /\ handles = NoHandle
    /\ mMutex = 0
    /\ threads = [t \in Threads |-> IdleThread]
    /\ idCounter = [u \in Units |-> 0]
    /\ typeIds = [T \in Types |-> None]
    /\ firstUse = <<>>
    /\ query = NoQuery
    /\ peak = 0

\* The caller is between two World calls.
CallerIdle == pc = "run" /\ main.state = "idle"

\* The caller starts one more World call.
Call == CallerIdle /\ calls < MaxCalls /\ calls' = calls + 1

Ids == 0 .. (Size(mComponentMasks) - 1)

\* ------------------------------------------------ calls from the caller
CreateEntity ==
    /\ Call
    /\ ~PQEmpty(mEntityIdFreeList) \/ Size(mComponentMasks) < MaxEntities
    /\ LET r == createEntity(World)
       IN  /\ SetWorld(r.w)
           /\ last' = Called("create", r.ret, None, Uninit, r)
           /\ pc' = Outcome(r)
    /\ rt' = 0
    /\ UNCHANGED <<mRunningSystems, dispatches, main, visit>>
    /\ UNCHANGED <<handles, mMutex, threads, idCounter, typeIds, firstUse, query>>

DestroyEntity(e) ==
    /\ Call
    /\ e \in live
    /\ LET r == destroyEntity(World, e)
       IN  /\ SetWorld(r.w)
           /\ last' = Called("destroy", e, None, Uninit, r)
           /\ pc' = Outcome(r)
    /\ rt' = 0
    /\ UNCHANGED <<mRunningSystems, dispatches, main, visit>>
    /\ UNCHANGED <<handles, mMutex, threads, idCounter, typeIds, firstUse, query>>

\* addComponent<c>(e, v) by a caller that has no component c on e
AddComponent(e, c, v) ==
    /\ Call
    /\ e \in live
    /\ <<c, e>> \notin objects
    /\ LET r == addComponent(World, e, c, v)
       IN  /\ SetWorld(r.w)
           /\ last' = Called("add", e, c, v, r)
           /\ pc' = Outcome(r)
    /\ rt' = IF rt = 2 /\ last.e = e /\ last.c = c THEN 3 ELSE 1
    /\ UNCHANGED <<mRunningSystems, dispatches, main, visit>>
    /\ handles' = IF handles.copy = e THEN [handles EXCEPT !.given = TRUE] ELSE handles
    /\ UNCHANGED <<mMutex, threads, idCounter, typeIds, firstUse, query>>

\* removeComponent<c>(e) by a caller that has put a component c on e
RemoveComponent(e, c) ==
    /\ Call
    /\ e \in live
    /\ <<c, e>> \in objects
    /\ LET r == removeComponent(World, e, c)
       IN  /\ SetWorld(r.w)
           /\ last' = Called("remove", e, c, Uninit, r)
           /\ pc' = Outcome(r)
    /\ rt' = IF rt = 1 /\ last.e = e /\ last.c = c THEN 2 ELSE 0
    /\ UNCHANGED <<mRunningSystems, dispatches, main, visit>>
    /\ UNCHANGED <<handles, mMutex, threads, idCounter, typeIds, firstUse, query>>

Flush ==
    /\ Call
    /\ SetWorld(flushAll(World))
    /\ last' = Called("flush", None, None, Uninit, [ok |-> TRUE, ret |-> None])
    /\ rt' = 0
    /\ UNCHANGED <<mRunningSystems, dispatches, main, visit, pc>>
    /\ UNCHANGED <<handles, mMutex, threads, idCounter, typeIds, firstUse, query>>

FlushId(e) ==
    /\ Call
    /\ e \in Ids
    /\ SetWorld(flushId(World, e))
    /\ last' = Called("flushId", e, None, Uninit, [ok |-> TRUE, ret |-> None])
    /\ rt' = 0
    /\ UNCHANGED <<mRunningSystems, dispatches, main, visit, pc>>
    /\ UNCHANGED <<handles, mMutex, threads, idCounter, typeIds, firstUse, query>>

\* EntityHandle::destroy on the handle of a live entity e, of which the caller
\* keeps a copy
HandleDestroy(e) ==
    /\ Call
    /\ e \in live
    /\ LET r == destroyEntity(World, e)
       IN  /\ SetWorld(r.w)
           /\ last' = Called("handle.destroy", e, None, Uninit, r)
           /\ pc' = Outcome(r)
           /\ handles' = IF r.ok
                         THEN [own |-> INVALID_ENTITY, copy |-> e, target |-> e, given |-> FALSE]
                         ELSE handles
    /\ rt' = 0
    /\ UNCHANGED <<mRunningSystems, dispatches, main, visit>>
    /\ UNCHANGED <<mMutex, threads, idCounter, typeIds, firstUse, query>>

\* getComponent<c>(e), whether or not e has a component c
GetComponent(e, c) ==
    /\ Call
    /\ e \in live
    /\ LET r == getComponent(World, e, c)
       IN  /\ SetWorld(r.w)
           /\ last' = Called("get", e, c, Uninit, r)
           /\ pc' = Outcome(r)
    /\ rt' = 0
    /\ UNCHANGED <<mRunningSystems, dispatches, main, visit>>
    /\ UNCHANGED <<handles, mMutex, threads, idCounter, typeIds, firstUse, query>>

\* addComponent<c>(e, v) by a caller that has put a component c on e already
AddPresent(e, c, v) ==
    /\ Call
    /\ e \in live
    /\ <<c, e>> \in objects
    /\ LET r == addComponent(World, e, c, v)
       IN  /\ SetWorld(r.w)
           /\ last' = Called("add", e, c, v, r)
           /\ pc' = Outcome(r)
    /\ rt' = 0
    /\ UNCHANGED <<mRunningSystems, dispatches, main, visit>>
    /\ UNCHANGED <<handles, mMutex, threads, idCounter, typeIds, firstUse, query>>

\* removeComponent<c>(e) by a caller that has no component c on e
RemoveAbsent(e, c) ==
    /\ Call
    /\ e \in live
    /\ <<c, e>> \notin objects
    /\ LET r == removeComponent(World, e, c)
       IN  /\ SetWorld(r.w)
           /\ last' = Called("remove", e, c, Uninit, r)
           /\ pc' = Outcome(r)
    /\ rt' = 0
    /\ UNCHANGED <<mRunningSystems, dispatches, main, visit>>
    /\ UNCHANGED <<handles, mMutex, threads, idCounter, typeIds, firstUse, query>>

\* destroyEntity(e) through a stale handle: e was destroyed and is not live
DestroyStale(e) ==
    /\ Call
    /\ e \in Ids \ live
    /\ LET r == destroyEntity(World, e)
       IN  /\ SetWorld(r.w)
           /\ last' = Called("destroy", e, None, Uninit, r)
           /\ pc' = Outcome(r)
    /\ rt' = 0
    /\ UNCHANGED <<mRunningSystems, dispatches, main, visit>>
    /\ UNCHANGED <<handles, mMutex, threads, idCounter, typeIds, firstUse, query>>

\* addComponent<c>(e, v) through a stale handle: e was destroyed and is not
\* live, and the bit of c is clear in its mask
AddStale(e, c, v) ==
    /\ Call
    /\ e \in Ids \ live
    /\ c \notin mComponentMasks[e]
    /\ LET r == addComponent(World, e, c, v)
       IN  /\ SetWorld(r.w)
           /\ last' = Called("add", e, c, v, r)
           /\ pc' = Outcome(r)
    /\ rt' = 0
    /\ UNCHANGED <<mRunningSystems, dispatches, main, visit>>
    /\ UNCHANGED <<handles, mMutex, threads, idCounter, typeIds, firstUse, query>>

\* ------------------------------------------ EntityHandle::get<T, true>
\* the value of a default-constructed component
DefaultValue == 1

\* get<ComponentType, addIfNotPresent = true>() of the handle of entity e:
\* if(!hasComponents<T>(mId)) addComponent<T>(mId); return getComponent<T>(mId)
handleGet(W, e, c) ==
    IF ~(Size(W.masks) > e) THEN [w |-> W, ok |-> FALSE, ret |-> Uninit]
    ELSE IF ~hasComponents(W, e, {c})
         THEN LET r == addComponent(W, e, c, DefaultValue)
              IN  IF r.ok THEN getComponent(r.w, e, c) ELSE r
         ELSE getComponent(W, e, c)

HandleGet(e, c) ==
    /\ Call
    /\ e \in live
    /\ LET r == handleGet(World, e, c)
       IN  /\ SetWorld(r.w)
           /\ last' = [Called("handleGet", e, c, Uninit, r) EXCEPT !.mask0 = mComponentMasks[e]]
           /\ pc' = Outcome(r)
    /\ rt' = 0
    /\ UNCHANGED <<mRunningSystems, dispatches, main, visit>>
    /\ UNCHANGED <<handles, mMutex, threads, idCounter, typeIds, firstUse, query>>

\* ------------------------------------- calls with an id beyond the count
\* The caller passes an id that is not below getEntityCount().
BeyondOps == {"add", "get", "remove", "has", "mask", "handle", "flushId", "isValid"}

\* addComponent, getComponent and removeComponent as they are; hasComponents,
\* getComponentMask, getEntityHandle, flush(id) and isValid begin with
\* assert(entityId < size) and do nothing else before it
CallBeyond(op, e, c) ==
    /\ Call
    /\ e >= Size(mComponentMasks)
    /\ (op \in {"add", "get", "remove"}) <=> (c \in Comps)
    /\ LET r == CASE op = "add" -> addComponent(World, e, c, 1)
                  [] op = "get" -> getComponent(World, e, c)
                  [] op = "remove" -> removeComponent(World, e, c)
                  [] OTHER -> [w |-> World, ok |-> FALSE, ret |-> Uninit]
       IN  /\ SetWorld(r.w)
           /\ last' = [NoCall EXCEPT !.op = op, !.e = e, !.c = c, !.ok = r.ok]
           /\ pc' = Outcome(r)
    /\ rt' = 0
    /\ UNCHANGED <<mRunningSystems, dispatches, main, visit>>
    /\ UNCHANGED <<handles, mMutex, threads, idCounter, typeIds, firstUse, query>>

\* destroyEntity(e): assert(mComponentMasks.size() >= entityId) stops an id
\* above the count. With the id equal to the count the loop reads
\* mComponentMasks[entityId] past the end (any mask m), a pool of a bit of m
\* fails its assert(has(entityId)), and otherwise the function writes past the
\* end and pushes the id on the free list, unless the write ends the program.
DestroyBeyond(e, m, outcome) ==
    /\ Call
    /\ e >= Size(mComponentMasks)
    /\ IF e > Size(mComponentMasks) \/ \E c \in m : mPools[c].alloc
       THEN /\ outcome = "aborted"
            /\ e > Size(mComponentMasks) => m = {}
            /\ SetWorld(World)
       ELSE SetWorld([World EXCEPT !.free = IF outcome = "run" THEN PQPush(@, e) ELSE @])
    /\ pc' = outcome
    /\ last' = [NoCall EXCEPT !.op = "destroy", !.e = e, !.ok = (outcome = "run")]
    /\ rt' = 0
    /\ UNCHANGED <<mRunningSystems, dispatches, main, visit>>
    /\ UNCHANGED <<handles, mMutex, threads, idCounter, typeIds, firstUse, query>>

\* ------------------------------------------ the locked World functions
\* createEntity, destroyEntity, addComponent and removeComponent called from
\* several threads (the caller's and those of running systems): each takes
\* std::lock_guard lock(mMutex) first and releases it when it returns.
LockedOps == {"create", "destroy", "add", "remove"}

\* thread t calls one of the four functions
ThreadCall(t, op, e, c) ==
    /\ pc = "run"
    /\ calls < MaxLockedCalls
    /\ calls' = calls + 1
    /\ threads[t].state = "idle"
    /\ CASE op = "create" ->
               /\ ~PQEmpty(mEntityIdFreeList) \/ Size(mComponentMasks) < MaxEntities
               /\ e = None /\ c = None
         [] op = "destroy" -> e \in live /\ c = None
         [] op = "add" -> e \in live /\ c \in Comps /\ <<c, e>> \notin objects
         [] op = "remove" -> e \in live /\ c \in Comps /\ <<c, e>> \in objects
    /\ threads' = [threads EXCEPT ![t] = [state |-> "enter", op |-> op, e |-> e, c |-> c]]
    /\ UNCHANGED <<mComponentMasks, mEntityValid, mEntityIdFreeList, mPools, mRunningSystems,
                   dispatches, main, pc, objects, live, fresh, spawned, matured, peak, visit, last, rt>>
    /\ UNCHANGED <<handles, mMutex, idCounter, typeIds, firstUse, query>>

\* a lock_guard that does not wait for the mutex
ThreadLockNoWait(t) ==
    /\ pc = "run"
    /\ threads[t].state = "enter"
    /\ mMutex' = t
    /\ threads' = [threads EXCEPT ![t].state = "locked"]
    /\ UNCHANGED <<mComponentMasks, mEntityValid, mEntityIdFreeList, mPools, mRunningSystems,
                   dispatches, main, pc, objects, live, fresh, spawned, matured, peak, visit, last,
                   calls, rt>>
    /\ UNCHANGED <<handles, idCounter, typeIds, firstUse, query>>
\* std::lock_guard lock(mMutex): thread t gets the mutex when no thread holds it
ThreadLock(t) ==
    /\ pc = "run"
    /\ threads[t].state = "enter"
    /\ mMutex = 0
    /\ mMutex' = t
    /\ threads' = [threads EXCEPT ![t].state = "locked"]
    /\ UNCHANGED <<mComponentMasks, mEntityValid, mEntityIdFreeList, mPools, mRunningSystems,
                   dispatches, main, pc, objects, live, fresh, spawned, matured, peak, visit, last,
                   calls, rt>>
    /\ UNCHANGED <<handles, idCounter, typeIds, firstUse, query>>

\* the body of the function thread t is in; the lock_guard unlocks on return
ThreadBody(t) ==
    /\ pc = "run"
    /\ threads[t].state = "locked"
    /\ LET th == threads[t]
           r == CASE th.op = "create" -> createEntity(World)
                  [] th.op = "destroy" -> destroyEntity(World, th.e)
                  [] th.op = "add" -> addComponent(World, th.e, th.c, 1)
                  [] th.op = "remove" -> removeComponent(World, th.e, th.c)
       IN  /\ SetWorld(r.w)
           /\ pc' = Outcome(r)
           /\ IF r.ok
              THEN mMutex' = 0 /\ threads' = [threads EXCEPT ![t] = IdleThread]
              ELSE UNCHANGED <<mMutex, threads>>
    /\ UNCHANGED <<mRunningSystems, dispatches, main, visit, last, calls, rt>>
    /\ UNCHANGED <<handles, idCounter, typeIds, firstUse, query>>

\* ------------------------------------------------------ componentId::get
\* componentId::get<T>() as linked from translation unit u. The function-local
\* static id is initialised on the first call from that unit's idCounter (when
\* several units instantiate get<T>, the linker keeps one of them: u); every
\* call then asserts id < MAX_COMPONENTS and returns id.
componentIdGet(T, u) ==
    /\ pc = "run"
    /\ LET id == IF typeIds[T] = None THEN idCounter[u] ELSE typeIds[T]
           r == [ok |-> id < MAX_COMPONENTS, ret |-> id]
       IN  /\ IF typeIds[T] = None
              THEN /\ typeIds' = [typeIds EXCEPT ![T] = id]
                   /\ idCounter' = [idCounter EXCEPT ![u] = @ + 1]
                   /\ firstUse' = Append(firstUse, T)
              ELSE UNCHANGED <<typeIds, idCounter, firstUse, query>>
           /\ last' = Called("componentId", None, T, Uninit, r)
           /\ pc' = Outcome(r)
    /\ UNCHANGED <<mComponentMasks, mEntityValid, mEntityIdFreeList, mPools, mRunningSystems,
                   dispatches, main, objects, live, fresh, spawned, matured, peak, visit, calls, rt>>
    /\ UNCHANGED <<handles, mMutex, threads, query>>

\* ------------------------------------- componentMask of a type list
\* An element of the type list of tickSystem<Components...>: a component type,
\* named as T or as const T.
Components == [type : Comps, const : BOOLEAN]
\* The type lists of the dispatches: the masks of a list do not depend on the
\* order of its elements or on repetitions, so the lists are taken in one
\* order (T before U for T < U, const T before T) and without repetition.
Rank(arg) == 2 * arg.type + (IF arg.const THEN 0 ELSE 1)
TypeLists ==
    {args \in UNION {[1 .. n -> Components] : n \in 1 .. MaxList} :
        \A i, j \in 1 .. Len(args) : i < j => Rank(args[i]) < Rank(args[j])}

\* the template argument as it stands: const T is a type of its own
KeepConst(arg) == IF arg.const THEN MAX_COMPONENTS - arg.type ELSE arg.type
\* std::remove_const<Args>::type
RemoveConst(arg) == arg.type

\* The ids and counters as one value: [ids, ctr, first].
\* componentId::get<T>() linked from unit u: static auto id = idCounter++
getId(st, T, u) ==
    IF st.ids[T] # None THEN st
    ELSE [ids |-> [st.ids EXCEPT ![T] = st.ctr[u]],
          ctr |-> [st.ctr EXCEPT ![u] = @ + 1],
          first |-> Append(st.first, T)]

\* the calls of componentId::get that componentMask<Args...>() makes, in order
getIds(st, args, u) ==
    LET step[i \in 0 .. Len(args)] ==
            IF i = 0 THEN st ELSE getId(step[i - 1], RemoveConst(args[i]), u)
    IN  step[Len(args)]

\* componentMask<Args...>() once its ids are assigned: the bits of the arguments
componentMask(ids, args) == {ids[RemoveConst(args[i])] : i \in 1 .. Len(args)}

\* constFilteredComponentMask<isConst, Args...>(): the fold over
\* _constFilteredComponentMask<isConst, Arg>, which is componentMask<Arg>() for
\* an argument whose constness is isConst and 0 for another
Filtered(isConst, args) == SelectSeq(args, LAMBDA arg : arg.const = isConst)
constFilteredComponentMask(ids, isConst, args) == componentMask(ids, Filtered(isConst, args))

\* The first three statements of the body of tickSystem<Components...>: readMask,
\* writeMask and the assertion on componentMask<Components...>(); the
\* instantiations of componentId::get they use first come from unit u.
ComputeMasks(args, u) ==
    /\ pc = "run"
    /\ calls < MaxQueries
    /\ calls' = calls + 1
    /\ LET st0 == [ids |-> typeIds, ctr |-> idCounter, first |-> firstUse]
           st == getIds(st0, Filtered(TRUE, args) \o Filtered(FALSE, args) \o args, u)
           readMask == constFilteredComponentMask(st.ids, TRUE, args)
           writeMask == constFilteredComponentMask(st.ids, FALSE, args)
       IN  /\ typeIds' = st.ids
           /\ idCounter' = st.ctr
           /\ firstUse' = st.first
           /\ query' = [components |-> args, readMask |-> readMask, writeMask |-> writeMask,
                        fullMask |-> componentMask(st.ids, args)]
           /\ pc' = IF (readMask \cup writeMask) = componentMask(st.ids, args)
                    THEN "run" ELSE "aborted"
    /\ last' = [NoCall EXCEPT !.op = "masks"]
    /\ UNCHANGED <<mComponentMasks, mEntityValid, mEntityIdFreeList, mPools, mRunningSystems,
                   dispatches, main, objects, live, fresh, spawned, matured, peak, visit, rt>>
    /\ UNCHANGED <<handles, mMutex, threads>>

\* ------------------------------------------------------- EntityIterator
MAX_INDEX == -1     \* the size_t that wraps to 0 when incremented

\* the ids operator++ does not skip
Matching(W, mask) ==
    {e \in 0 .. (getEntityCount(W) - 1) : isValid(W, e) /\ hasComponents(W, e, mask)}

\* the while loop of operator++ without the test of the valid flag
RECURSIVE skipEntitiesAnyValid(_, _, _)
skipEntitiesAnyValid(W, i, mask) ==
    IF i < getEntityCount(W) /\ ~hasComponents(W, i, mask)
    THEN skipEntitiesAnyValid(W, i + 1, mask)
    ELSE i
\* the while loop of operator++, entered with mEntityIndex = i
RECURSIVE skipEntities(_, _, _)
skipEntities(W, i, mask) ==
    IF i < getEntityCount(W) /\ (~isValid(W, i) \/ ~hasComponents(W, i, mask))
    THEN skipEntities(W, i + 1, mask)
    ELSE i

\* EntityIterator::operator++ on an iterator at index i
increment(W, i, mask) ==
    LET j == skipEntities(W, i + 1, mask)
    IN  IF j >= getEntityCount(W) THEN MAX_INDEX ELSE j

\* EntityList::begin
begin(W, mask) == increment(W, MAX_INDEX, mask)

\* ------------------------------------------------------ system callables
\* The component lists tickSystem is instantiated with: const components are read.
Signatures ==
    { [read |-> {}, write |-> {0}], [read |-> {0}, write |-> {}] }

Choices == {"touch", "spawn", "destroy", "respawn"}

Bump(v) == IF v < MaxValue THEN v + 1 ELSE v

\* the callable assigns to the components it holds mutable references to
touch(W, e, write) ==
    [W EXCEPT !.pools = [c \in Comps |->
        IF c \in write
        THEN [@[c] EXCEPT !.mBlocks[getIndices(e)[1]].mem[getIndices(e)[2]] = Bump(@)]
        ELSE @[c]]]

\* e.add<c>(1) for every c of mask from component id c on
RECURSIVE addAll(_, _, _, _)
addAll(W, e, mask, c) ==
    IF c >= NumComponents THEN [w |-> W, ok |-> TRUE, ret |-> e]
    ELSE IF c \in mask
         THEN LET r == addComponent(W, e, c, 1)
              IN  IF r.ok THEN addAll(r.w, e, mask, c + 1)
                  ELSE [w |-> r.w, ok |-> FALSE, ret |-> e]
         ELSE addAll(W, e, mask, c + 1)

\* the callable of dispatch n creates an entity and gives it the components of mask
spawn(W, n, mask) ==
    LET r == createEntity(W)
    IN  IF ~r.ok THEN r
        ELSE addAll([r.w EXCEPT !.spawned = @ \cup {<<r.ret, n>>}], r.ret, mask, 0)

Callable(choice, W, n, e, d) ==
    CASE choice = "touch" -> [w |-> touch(W, e, d.writeMask), ok |-> TRUE, ret |-> e]
      [] choice = "spawn" -> spawn(W, n, d.readMask \cup d.writeMask)
      [] choice = "destroy" -> destroyEntity(W, e)
      [] choice = "respawn" ->
            LET r == destroyEntity(W, e)
            IN  IF r.ok THEN spawn(r.w, n, d.readMask \cup d.writeMask) ELSE r

\* tickEntity: e.get<Components>()... of the entity the iterator yields
getAll(W, e, mask) == e < getEntityCount(W) /\ \A c \in mask : getComponent(W, e, c).ok

FullMask(d) == d.readMask \cup d.writeMask

\* One pass of the for_each loop of dispatch n: tickEntity(*first); ++first
Invoke(n, choice) ==
    LET d == dispatches[n]
        e == d.idx
    IN  /\ choice = "spawn" => (~PQEmpty(mEntityIdFreeList) \/ Size(mComponentMasks) < MaxEntities)
        /\ IF ~getAll(World, e, FullMask(d))
           THEN /\ pc' = "aborted"
                /\ visit' = [visit EXCEPT !.gone = e \notin live]
                /\ dispatches' = [dispatches EXCEPT ![n].order = Append(@, e)]
                /\ UNCHANGED <<mComponentMasks, mEntityValid, mEntityIdFreeList, mPools,
                               objects, live, fresh, spawned, matured, peak>>
           ELSE LET r == Callable(choice, World, n, e, d)
                IN  /\ visit' = [n |-> n, id |-> e, fresh |-> e \in fresh,
                                 own |-> <<e, n>> \in spawned, gone |-> e \notin live]
                    /\ SetWorld(r.w)
                    /\ pc' = Outcome(r)
                    /\ dispatches' = [dispatches EXCEPT
                           ![n].idx = increment(r.w, e, FullMask(d)),
                           ![n].visited = @ \cup {e},
                           ![n].order = Append(@, e)]

\* ------------------------------------------------------------ tickSystem
ConflictsWriteOnly(system, readMask, writeMask) ==
    (system.writeMask \cap writeMask) # {}
Conflicts(system, readMask, writeMask) ==
    (system.writeMask \cap (readMask \cup writeMask)) # {}

\* waitForSystems that joins every running system
NextConflictAny(k, readMask, writeMask) ==
    IF k <= Len(mRunningSystems) THEN k ELSE 0
\* the first entry of mRunningSystems at or after position k that waitForSystems joins
NextConflict(k, readMask, writeMask) ==
    LET S == {j \in k .. Len(mRunningSystems) :
                 Conflicts(mRunningSystems[j], readMask, writeMask)}
    IN  IF S = {} THEN 0 ELSE Min(S)

TickSystem(sig, async, parallelFor) ==
    /\ Call
    /\ Len(dispatches) < MaxDispatches
    /\ dispatches' = Append(dispatches,
           [readMask |-> sig.read, writeMask |-> sig.write, async |-> async,
            parallelFor |-> parallelFor, state |-> "wait", idx |-> MAX_INDEX,
            visited |-> {}, joinedBy |-> "none", joiner |-> 0, order |-> <<>>, pending |-> {},
            match0 |-> {}])
    /\ main' = [state |-> "wait", n |-> Len(dispatches) + 1, k |-> 1, flush |-> FALSE]
    /\ last' = [NoCall EXCEPT !.op = "tickSystem:call", !.n = Len(dispatches) + 1]
    /\ rt' = 0
    /\ UNCHANGED <<mComponentMasks, mEntityValid, mEntityIdFreeList, mPools, mRunningSystems,
                   pc, objects, live, fresh, spawned, matured, peak, visit>>
    /\ UNCHANGED <<handles, mMutex, threads, idCounter, typeIds, firstUse, query>>

\* waitForSystems blocks in thread.join() of the next conflicting system;
\* join() on a thread that was joined before throws std::system_error
WaitForSystems ==
    /\ pc = "run" /\ main.state = "wait"
    /\ LET d == dispatches[main.n]
           j == NextConflict(main.k, d.readMask, d.writeMask)
       IN  /\ j # 0
           /\ IF dispatches[mRunningSystems[j].thread].state = "joined"
              THEN /\ pc' = "terminated"
                   /\ dispatches' = [dispatches EXCEPT ![mRunningSystems[j].thread].joinedBy = "twice"]
                   /\ UNCHANGED <<mRunningSystems, main>>
              ELSE /\ dispatches[mRunningSystems[j].thread].state = "done"
                   /\ mRunningSystems' = [mRunningSystems EXCEPT ![j].threadJoined = TRUE]
                   /\ dispatches' = [dispatches EXCEPT ![mRunningSystems[j].thread].state = "joined",
                                                       ![mRunningSystems[j].thread].joinedBy = "waitForSystems",
                                                       ![mRunningSystems[j].thread].joiner = main.n]
                   /\ main' = [main EXCEPT !.k = j + 1]
                   /\ pc' = pc
    /\ UNCHANGED <<mComponentMasks, mEntityValid, mEntityIdFreeList, mPools, objects, live,
                   fresh, spawned, matured, peak, visit, last, calls, rt>>
    /\ UNCHANGED <<handles, mMutex, threads, idCounter, typeIds, firstUse, query>>

\* tickSystem that starts the thread of an asynchronous system without recording it
StartSystemUnrecorded ==
    /\ pc = "run" /\ main.state = "wait"
    /\ LET d == dispatches[main.n]
           kept == SelectSeq(mRunningSystems, LAMBDA system : ~system.threadJoined)
       IN  /\ NextConflict(main.k, d.readMask, d.writeMask) = 0
           /\ IF d.async
              THEN /\ mRunningSystems' = kept
                   /\ dispatches' = [dispatches EXCEPT ![main.n].state = "begin"]
                   /\ main' = IdleMain
                   /\ last' = [NoCall EXCEPT !.op = "tickSystem", !.n = main.n]
              ELSE /\ mRunningSystems' = kept
                   /\ dispatches' = [dispatches EXCEPT ![main.n].state = "iter",
                                         ![main.n].idx = begin(World, FullMask(d)),
                                         ![main.n].match0 = Matching(World, FullMask(d))]
                   /\ main' = [main EXCEPT !.state = "iter"]
                   /\ UNCHANGED last
    /\ UNCHANGED <<mComponentMasks, mEntityValid, mEntityIdFreeList, mPools, pc, objects, live,
                   fresh, spawned, matured, peak, visit, calls, rt>>
    /\ UNCHANGED <<handles, mMutex, threads, idCounter, typeIds, firstUse, query>>
\* waitForSystems that returns without erasing the entries it joined
StartSystemKeepJoined ==
    /\ pc = "run" /\ main.state = "wait"
    /\ LET d == dispatches[main.n]
           kept == mRunningSystems
       IN  /\ NextConflict(main.k, d.readMask, d.writeMask) = 0
           /\ IF d.async
              THEN /\ mRunningSystems' = Append(kept,
                          [readMask |-> d.readMask, writeMask |-> d.writeMask,
                           threadJoined |-> FALSE, thread |-> main.n])
                   /\ dispatches' = [dispatches EXCEPT ![main.n].state = "begin"]
                   /\ main' = IdleMain
                   /\ last' = [NoCall EXCEPT !.op = "tickSystem", !.n = main.n]
              ELSE /\ mRunningSystems' = kept
                   /\ dispatches' = [dispatches EXCEPT ![main.n].state = "iter",
                                         ![main.n].idx = begin(World, FullMask(d)),
                                         ![main.n].match0 = Matching(World, FullMask(d))]
                   /\ main' = [main EXCEPT !.state = "iter"]
                   /\ UNCHANGED last
    /\ UNCHANGED <<mComponentMasks, mEntityValid, mEntityIdFreeList, mPools, pc, objects, live,
                   fresh, spawned, matured, peak, visit, calls, rt>>
    /\ UNCHANGED <<handles, mMutex, threads, idCounter, typeIds, firstUse, query>>
\* waitForSystems returns (erasing the joined entries) and tickSystem starts the iteration
StartSystem ==
    /\ pc = "run" /\ main.state = "wait"
    /\ LET d == dispatches[main.n]
           kept == SelectSeq(mRunningSystems, LAMBDA system : ~system.threadJoined)
       IN  /\ NextConflict(main.k, d.readMask, d.writeMask) = 0
           /\ IF d.async
              THEN /\ mRunningSystems' = Append(kept,
                          [readMask |-> d.readMask, writeMask |-> d.writeMask,
                           threadJoined |-> FALSE, thread |-> main.n])
                   /\ dispatches' = [dispatches EXCEPT ![main.n].state = "begin"]
                   /\ main' = IdleMain
                   /\ last' = [NoCall EXCEPT !.op = "tickSystem", !.n = main.n]
              ELSE /\ mRunningSystems' = kept
                   /\ dispatches' = [dispatches EXCEPT ![main.n].state = "iter",
                                         ![main.n].idx = begin(World, FullMask(d)),
                                         ![main.n].match0 = Matching(World, FullMask(d))]
                   /\ main' = [main EXCEPT !.state = "iter"]
                   /\ UNCHANGED last
    /\ UNCHANGED <<mComponentMasks, mEntityValid, mEntityIdFreeList, mPools, pc, objects, live,
                   fresh, spawned, matured, peak, visit, calls, rt>>
    /\ UNCHANGED <<handles, mMutex, threads, idCounter, typeIds, firstUse, query>>

\* the caller's thread runs one pass of a synchronous dispatch
SyncStep(choice) ==
    /\ pc = "run" /\ main.state = "iter"
    /\ ~dispatches[main.n].parallelFor
    /\ dispatches[main.n].idx # MAX_INDEX
    /\ Invoke(main.n, choice)
    /\ UNCHANGED <<mRunningSystems, main, last, calls, rt>>
    /\ UNCHANGED <<handles, mMutex, threads, idCounter, typeIds, firstUse, query>>

\* first == last: for_each and with it the synchronous tickSystem return
SyncReturn ==
    /\ pc = "run" /\ main.state = "iter"
    /\ dispatches[main.n].idx = MAX_INDEX
    /\ dispatches[main.n].pending = {}
    /\ dispatches' = [dispatches EXCEPT ![main.n].state = "done"]
    /\ main' = IdleMain
    /\ last' = [NoCall EXCEPT !.op = "tickSystem", !.n = main.n]
    /\ UNCHANGED <<mComponentMasks, mEntityValid, mEntityIdFreeList, mPools, mRunningSystems,
                   pc, objects, live, fresh, spawned, matured, peak, visit, calls, rt>>
    /\ UNCHANGED <<handles, mMutex, threads, idCounter, typeIds, firstUse, query>>

\* the thread of an asynchronous dispatch calls entityList.begin()
WorkerBegin(n) ==
    /\ pc = "run"
    /\ n \in 1 .. Len(dispatches)
    /\ dispatches[n].async /\ dispatches[n].state = "begin"
    /\ dispatches' = [dispatches EXCEPT ![n].state = "iter",
                          ![n].idx = begin(World, FullMask(dispatches[n])),
                          ![n].match0 = Matching(World, FullMask(dispatches[n]))]
    /\ UNCHANGED <<mComponentMasks, mEntityValid, mEntityIdFreeList, mPools, mRunningSystems,
                   main, pc, objects, live, fresh, spawned, matured, peak, visit, last, calls, rt>>
    /\ UNCHANGED <<handles, mMutex, threads, idCounter, typeIds, firstUse, query>>

WorkerStep(n, choice) ==
    /\ pc = "run"
    /\ n \in 1 .. Len(dispatches)
    /\ dispatches[n].async /\ dispatches[n].state = "iter"
    /\ ~dispatches[n].parallelFor
    /\ dispatches[n].idx # MAX_INDEX
    /\ Invoke(n, choice)
    /\ UNCHANGED <<mRunningSystems, main, last, calls, rt>>
    /\ UNCHANGED <<handles, mMutex, threads, idCounter, typeIds, firstUse, query>>

\* the thread function returns
WorkerReturn(n) ==
    /\ pc = "run"
    /\ n \in 1 .. Len(dispatches)
    /\ dispatches[n].async /\ dispatches[n].state = "iter"
    /\ dispatches[n].idx = MAX_INDEX
    /\ dispatches[n].pending = {}
    /\ dispatches' = [dispatches EXCEPT ![n].state = "done"]
    /\ UNCHANGED <<mComponentMasks, mEntityValid, mEntityIdFreeList, mPools, mRunningSystems,
                   main, pc, objects, live, fresh, spawned, matured, peak, visit, last, calls, rt>>
    /\ UNCHANGED <<handles, mMutex, threads, idCounter, typeIds, firstUse, query>>

\* ------------------------------------------- std::for_each(execution::par)
\* The parallel algorithm walks the forward range [begin, end) and hands each
\* element to one of its workers; the workers call tickEntity in any order.

\* tickEntity(e) on a worker of the parallel for_each of dispatch n
InvokePar(n, e, choice) ==
    LET d == dispatches[n]
    IN  /\ choice = "spawn" => (~PQEmpty(mEntityIdFreeList) \/ Size(mComponentMasks) < MaxEntities)
        /\ IF ~getAll(World, e, FullMask(d))
           THEN /\ pc' = "aborted"
                /\ visit' = [visit EXCEPT !.gone = e \notin live]
                /\ dispatches' = [dispatches EXCEPT ![n].order = Append(@, e),
                                                    ![n].pending = @ \ {e}]
                /\ UNCHANGED <<mComponentMasks, mEntityValid, mEntityIdFreeList, mPools,
                               objects, live, fresh, spawned, matured, peak>>
           ELSE LET r == Callable(choice, World, n, e, d)
                IN  /\ visit' = [n |-> n, id |-> e, fresh |-> e \in fresh,
                                 own |-> <<e, n>> \in spawned, gone |-> e \notin live]
                    /\ SetWorld(r.w)
                    /\ pc' = Outcome(r)
                    /\ dispatches' = [dispatches EXCEPT
                           ![n].visited = @ \cup {e},
                           ![n].order = Append(@, e),
                           ![n].pending = @ \ {e}]

\* a parallel for_each that steps over every second element of the range
ParTakeSkip(n) ==
    /\ pc = "run"
    /\ n \in 1 .. Len(dispatches)
    /\ dispatches[n].parallelFor /\ dispatches[n].state = "iter"
    /\ dispatches[n].idx # MAX_INDEX
    /\ LET d == dispatches[n]
           j == increment(World, d.idx, FullMask(d))
       IN  dispatches' = [dispatches EXCEPT
               ![n].pending = @ \cup {d.idx},
               ![n].idx = IF j = MAX_INDEX THEN j ELSE increment(World, j, FullMask(d))]
    /\ UNCHANGED <<mComponentMasks, mEntityValid, mEntityIdFreeList, mPools, mRunningSystems,
                   main, pc, objects, live, fresh, spawned, matured, peak, visit, last, calls, rt>>
    /\ UNCHANGED <<handles, mMutex, threads, idCounter, typeIds, firstUse, query>>
\* the parallel for_each fetches the next element: *first, ++first
ParTake(n) ==
    /\ pc = "run"
    /\ n \in 1 .. Len(dispatches)
    /\ dispatches[n].parallelFor /\ dispatches[n].state = "iter"
    /\ dispatches[n].idx # MAX_INDEX
    /\ LET d == dispatches[n]
       IN  dispatches' = [dispatches EXCEPT
               ![n].pending = @ \cup {d.idx},
               ![n].idx = increment(World, d.idx, FullMask(d))]
    /\ UNCHANGED <<mComponentMasks, mEntityValid, mEntityIdFreeList, mPools, mRunningSystems,
                   main, pc, objects, live, fresh, spawned, matured, peak, visit, last, calls, rt>>
    /\ UNCHANGED <<handles, mMutex, threads, idCounter, typeIds, firstUse, query>>

\* one of the workers processes an element it was handed
ParInvoke(n, e, choice) ==
    /\ pc = "run"
    /\ n \in 1 .. Len(dispatches)
    /\ dispatches[n].parallelFor /\ dispatches[n].state = "iter"
    /\ e \in dispatches[n].pending
    /\ InvokePar(n, e, choice)
    /\ UNCHANGED <<mRunningSystems, main, last, calls, rt>>
    /\ UNCHANGED <<handles, mMutex, threads, idCounter, typeIds, firstUse, query>>

\* ------------------------------------- joinSystemThreads and finishTick
JoinSystemThreads(flush) ==
    /\ Call
    /\ main' = [state |-> "joinAll", n |-> 0, k |-> 1, flush |-> flush]
    /\ last' = [NoCall EXCEPT !.op = IF flush THEN "finishTick:call" ELSE "joinSystemThreads:call"]
    /\ rt' = 0
    /\ UNCHANGED <<mComponentMasks, mEntityValid, mEntityIdFreeList, mPools, mRunningSystems,
                   dispatches, pc, objects, live, fresh, spawned, matured, peak, visit>>
    /\ UNCHANGED <<handles, mMutex, threads, idCounter, typeIds, firstUse, query>>

FinishTick == JoinSystemThreads(TRUE)

\* one pass of the loop of joinSystemThreads: system->thread.join(), which
\* throws std::system_error on a thread that was joined before
JoinThread ==
    /\ pc = "run" /\ main.state = "joinAll"
    /\ main.k <= Len(mRunningSystems)
    /\ IF dispatches[mRunningSystems[main.k].thread].state = "joined"
       THEN /\ pc' = "terminated"
            /\ dispatches' = [dispatches EXCEPT ![mRunningSystems[main.k].thread].joinedBy = "twice"]
            /\ main' = main
       ELSE /\ dispatches[mRunningSystems[main.k].thread].state = "done"
            /\ dispatches' = [dispatches EXCEPT ![mRunningSystems[main.k].thread].state = "joined",
                                                ![mRunningSystems[main.k].thread].joinedBy = "joinSystemThreads"]
            /\ main' = [main EXCEPT !.k = @ + 1]
            /\ pc' = pc
    /\ UNCHANGED <<mComponentMasks, mEntityValid, mEntityIdFreeList, mPools, mRunningSystems,
                   objects, live, fresh, spawned, matured, peak, visit, last, calls, rt>>
    /\ UNCHANGED <<handles, mMutex, threads, idCounter, typeIds, firstUse, query>>

\* joinSystemThreads that clears the running list without joining what is left
JoinReturnEarly ==
    /\ pc = "run" /\ main.state = "joinAll"
    /\ mRunningSystems' = <<>>
    /\ IF main.flush
       THEN LET W0 == World IN SetWorld([flushAll(W0) EXCEPT !.matured = @ \cup W0.spawned, !.spawned = {}])
       ELSE SetWorld(World)
    /\ main' = IdleMain
    /\ last' = [NoCall EXCEPT !.op = IF main.flush THEN "finishTick" ELSE "joinSystemThreads"]
    /\ UNCHANGED <<dispatches, pc, visit, calls, rt>>
    /\ UNCHANGED <<handles, mMutex, threads, idCounter, typeIds, firstUse, query>>

\* mRunningSystems.clear(), and in finishTick flush()
JoinReturn ==
    /\ pc = "run" /\ main.state = "joinAll"
    /\ main.k > Len(mRunningSystems)
    /\ mRunningSystems' = <<>>
    /\ IF main.flush
       THEN LET W0 == World IN SetWorld([flushAll(W0) EXCEPT !.matured = @ \cup W0.spawned, !.spawned = {}])
       ELSE SetWorld(World)
    /\ main' = IdleMain
    /\ last' = [NoCall EXCEPT !.op = IF main.flush THEN "finishTick" ELSE "joinSystemThreads"]
    /\ UNCHANGED <<dispatches, pc, visit, calls, rt>>
    /\ UNCHANGED <<handles, mMutex, threads, idCounter, typeIds, firstUse, query>>

\* ---------------------------------------------------------------- ~World
\* The members are destroyed in reverse order of declaration: the pools free
\* their blocks, then the RunningSystems destroy their std::thread.
DestroyWorld ==
    /\ CallerIdle
    /\ mPools' = [c \in Comps |-> NoPool]
    /\ pc' = IF mRunningSystems # <<>> THEN "terminated" ELSE "destroyed"
    /\ last' = [NoCall EXCEPT !.op = "~World"]
    /\ UNCHANGED <<mComponentMasks, mEntityValid, mEntityIdFreeList, mRunningSystems, dispatches,
                   main, objects, live, fresh, spawned, matured, peak, visit, calls, rt>>
    /\ UNCHANGED <<handles, mMutex, threads, idCounter, typeIds, firstUse, query>>

\* ------------------------------------- iterating while the registry grows
\* The threads of running systems advance their iterators (operator++ reads
\* getEntityCount, isValid and hasComponents without taking mMutex) and their
\* callables call createEntity and destroyEntity, which take it.

\* thread t enters operator++ (begin() when e is MAX_INDEX) of a query for c
IterBegin(t, e, c) ==
    /\ pc = "run"
    /\ threads[t].state = "idle"
    /\ e = MAX_INDEX \/ e < getEntityCount(World)
    /\ threads' = [threads EXCEPT ![t] = [state |-> "reading", op |-> "iterate", e |-> e, c |-> c]]
    /\ UNCHANGED <<mComponentMasks, mEntityValid, mEntityIdFreeList, mPools, mRunningSystems,
                   dispatches, main, pc, objects, live, fresh, spawned, matured, peak, visit, last,
                   calls, rt>>
    /\ UNCHANGED <<handles, mMutex, idCounter, typeIds, firstUse, query>>

\* operator++ returns: the iterator stands on the next matching index
IterEnd(t) ==
    /\ pc = "run"
    /\ threads[t].state = "reading"
    /\ last' = [NoCall EXCEPT !.op = "iterate", !.e = threads[t].e, !.c = threads[t].c,
                              !.ret = increment(World, threads[t].e, {threads[t].c})]
    /\ threads' = [threads EXCEPT ![t] = IdleThread]
    /\ UNCHANGED <<mComponentMasks, mEntityValid, mEntityIdFreeList, mPools, mRunningSystems,
                   dispatches, main, pc, objects, live, fresh, spawned, matured, peak, visit,
                   calls, rt>>
    /\ UNCHANGED <<handles, mMutex, idCounter, typeIds, firstUse, query>>

\* operator++ reads the vectors while another thread is in the push_back of
\* createEntity: a data race, after which the iterator stands on any index or
\* the read of a reallocated vector ends the program
IterRace(t, j, outcome) ==
    /\ pc = "run"
    /\ threads[t].state = "reading"
    /\ \E w \in Threads : /\ threads[w].state = "locked"
                          /\ threads[w].op = "create"
                          /\ PQEmpty(mEntityIdFreeList)
    /\ last' = [NoCall EXCEPT !.op = "iterate", !.e = threads[t].e, !.c = threads[t].c,
                              !.ok = FALSE, !.ret = j]
    /\ pc' = outcome
    /\ threads' = [threads EXCEPT ![t] = IdleThread]
    /\ UNCHANGED <<mComponentMasks, mEntityValid, mEntityIdFreeList, mPools, mRunningSystems,
                   dispatches, main, objects, live, fresh, spawned, matured, peak, visit,
                   calls, rt>>
    /\ UNCHANGED <<handles, mMutex, idCounter, typeIds, firstUse, query>>

\* ------------------------------- callables that take the registry mutex
\* The thread that executes dispatch n (the caller's for a synchronous
\* dispatch, the system's own for an asynchronous one) runs a callable that
\* calls world.createEntity(): it waits for mMutex in ThreadLock.

\* tickEntity got the components of *first and the callable calls createEntity
CallableEnter(n) ==
    /\ pc = "run"
    /\ n \in 1 .. Len(dispatches) /\ n \in Threads
    /\ ~dispatches[n].parallelFor /\ dispatches[n].state = "iter"
    /\ dispatches[n].idx # MAX_INDEX
    /\ threads[n].state = "idle"
    /\ getAll(World, dispatches[n].idx, FullMask(dispatches[n]))
    /\ ~PQEmpty(mEntityIdFreeList) \/ Size(mComponentMasks) < MaxEntities
    /\ threads' = [threads EXCEPT ![n] = [state |-> "enter", op |-> "create", e |-> None, c |-> None]]
    /\ UNCHANGED <<mComponentMasks, mEntityValid, mEntityIdFreeList, mPools, mRunningSystems,
                   dispatches, main, pc, objects, live, fresh, spawned, matured, peak, visit, last,
                   calls, rt>>
    /\ UNCHANGED <<handles, mMutex, idCounter, typeIds, firstUse, query>>

\* a createEntity whose lock_guard is never released
CallableBodyKeepLock(n) ==
    /\ pc = "run"
    /\ n \in 1 .. Len(dispatches) /\ n \in Threads
    /\ dispatches[n].state = "iter" /\ threads[n].state = "locked"
    /\ LET d == dispatches[n]
           r == createEntity(World)
       IN  /\ SetWorld([r.w EXCEPT !.spawned = @ \cup {<<r.ret, n>>}])
           /\ visit' = [n |-> n, id |-> d.idx, fresh |-> d.idx \in fresh,
                        own |-> <<d.idx, n>> \in spawned, gone |-> d.idx \notin live]
           /\ dispatches' = [dispatches EXCEPT
                  ![n].idx = increment(r.w, d.idx, FullMask(d)),
                  ![n].visited = @ \cup {d.idx},
                  ![n].order = Append(@, d.idx)]
    /\ threads' = [threads EXCEPT ![n] = IdleThread]
    /\ UNCHANGED <<mRunningSystems, main, pc, last, calls, rt>>
    /\ UNCHANGED <<handles, mMutex, idCounter, typeIds, firstUse, query>>
\* createEntity runs and returns (the lock_guard unlocks), the callable
\* returns, and for_each advances the iterator: ++first
CallableBody(n) ==
    /\ pc = "run"
    /\ n \in 1 .. Len(dispatches) /\ n \in Threads
    /\ dispatches[n].state = "iter" /\ threads[n].state = "locked"
    /\ LET d == dispatches[n]
           r == createEntity(World)
       IN  /\ SetWorld([r.w EXCEPT !.spawned = @ \cup {<<r.ret, n>>}])
           /\ visit' = [n |-> n, id |-> d.idx, fresh |-> d.idx \in fresh,
                        own |-> <<d.idx, n>> \in spawned, gone |-> d.idx \notin live]
           /\ dispatches' = [dispatches EXCEPT
                  ![n].idx = increment(r.w, d.idx, FullMask(d)),
                  ![n].visited = @ \cup {d.idx},
                  ![n].order = Append(@, d.idx)]
    /\ mMutex' = 0
    /\ threads' = [threads EXCEPT ![n] = IdleThread]
    /\ UNCHANGED <<mRunningSystems, main, pc, last, calls, rt>>
    /\ UNCHANGED <<handles, idCounter, typeIds, firstUse, query>>

ApiCall ==
    \/ CreateEntity
    \/ \E e \in 0 .. (MaxEntities - 1) : DestroyEntity(e)
    \/ \E e \in 0 .. (MaxEntities - 1), c \in Comps, v \in Values : AddComponent(e, c, v)
    \/ \E e \in 0 .. (MaxEntities - 1), c \in Comps : RemoveComponent(e, c)
    \/ Flush
    \/ \E e \in 0 .. (MaxEntities - 1) : FlushId(e)

Next ==
    \/ ApiCall
    \/ DestroyWorld

Spec == Init /\ [][Next]_vars

\* The first MaxStoring registry calls of a program.
NextStore == calls < MaxStoring /\ ApiCall

SpecStore == Init /\ [][NextStore]_vars

\* The caller also makes calls whose precondition does not hold.
NextMisuse ==
    \/ ApiCall
    \/ \E e \in 0 .. (MaxEntities - 1), c \in Comps : GetComponent(e, c)
    \/ \E e \in 0 .. (MaxEntities - 1), c \in Comps : AddPresent(e, c, 1)
    \/ \E e \in 0 .. (MaxEntities - 1), c \in Comps : RemoveAbsent(e, c)

SpecMisuse == Init /\ [][NextMisuse]_vars

\* The caller also destroys entities through their handles.
NextHandle ==
    \/ ApiCall
    \/ \E e \in 0 .. (MaxEntities - 1) : HandleDestroy(e)

SpecHandle == Init /\ [][NextHandle]_vars

\* A program that only queries component ids. Component types are
\* interchangeable, so they are labelled in the order of their first use: a
\* query names the next unused label or one of the types used last.
NextIds ==
    \E T \in Types, u \in Units :
        /\ T <= Len(firstUse)
        /\ T + MaxRecall >= Len(firstUse)
        /\ typeIds[T] # None => u = 1
        /\ (typeIds[T] = None /\ u # 1) => Len(firstUse) - idCounter[1] < MaxElsewhere
        /\ componentIdGet(T, u)

SpecIds == Init /\ [][NextIds]_vars

\* A program that computes the masks of type lists.
NextMasks == \E args \in TypeLists, u \in Units : ComputeMasks(args, u)

SpecMasks == Init /\ [][NextMasks]_vars

\* Threads that call the four locked functions concurrently.
NextLock ==
    \/ \E t \in Threads, op \in LockedOps, e \in {None} \cup (0 .. (MaxEntities - 1)),
          c \in {None} \cup Comps : ThreadCall(t, op, e, c)
    \/ \E t \in Threads : ThreadLock(t)
    \/ \E t \in Threads : ThreadBody(t)

SpecLock == Init /\ [][NextLock]_vars

\* Threads of running systems that iterate and whose callables create and
\* destroy entities.
NextGrow ==
    \/ \E t \in Threads, op \in {"create", "destroy"}, e \in {None} \cup (0 .. (MaxEntities - 1)) :
           ThreadCall(t, op, e, None)
    \/ \E t \in Threads : ThreadLock(t)
    \/ \E t \in Threads : ThreadBody(t)
    \/ \E t \in Threads, e \in {MAX_INDEX} \cup (0 .. (MaxEntities - 1)), c \in Comps :
           IterBegin(t, e, c)
    \/ \E t \in Threads : IterEnd(t)
    \/ \E t \in Threads, j \in {MAX_INDEX} \cup (0 .. (MaxEntities - 1)),
          outcome \in {"run", "aborted"} : IterRace(t, j, outcome)

SpecGrow == Init /\ [][NextGrow]_vars

\* The registry calls the caller makes itself, between ticks while no system
\* thread is running; while threads run the registry is changed by the callables.
ApiCallSys ==
    /\ mRunningSystems = <<>>
    /\ \/ CreateEntity
       \/ \E e \in 0 .. (MaxEntities - 1) : DestroyEntity(e)
       \/ \E e \in 0 .. (MaxEntities - 1), c \in Comps : AddComponent(e, c, 1)
       \/ \E e \in 0 .. (MaxEntities - 1), c \in Comps : RemoveComponent(e, c)
       \/ Flush
       \/ \E e \in 0 .. (MaxEntities - 1) : FlushId(e)

\* The caller also reads components with get<T, true>.
NextGet ==
    \/ ApiCallSys
    \/ \E e \in 0 .. (MaxEntities - 1), c \in Comps : HandleGet(e, c)

SpecGet == Init /\ [][NextGet]_vars

\* The caller also passes ids that no createEntity has returned yet.
NextRange ==
    \/ ApiCallSys
    \/ \E op \in BeyondOps, e \in 0 .. MaxEntities, c \in {None} \cup Comps : CallBeyond(op, e, c)
    \/ \E e \in 0 .. MaxEntities, m \in SUBSET Comps, outcome \in {"run", "aborted"} :
           DestroyBeyond(e, m, outcome)

SpecRange == Init /\ [][NextRange]_vars

\* The caller also uses handles of entities that were destroyed.
NextStale ==
    \/ ApiCallSys
    \/ \E e \in 0 .. (MaxEntities - 1) : DestroyStale(e)
    \/ \E e \in 0 .. (MaxEntities - 1), c \in Comps : AddStale(e, c, 1)

SpecStale == Init /\ [][NextStale]_vars

NextSys ==
    \/ calls < MaxSetup /\ ApiCallSys
    \/ \E sig \in Signatures, async \in BOOLEAN : TickSystem(sig, async, FALSE)
    \/ WaitForSystems
    \/ StartSystem
    \/ \E choice \in Choices : SyncStep(choice)
    \/ SyncReturn
    \/ \E n \in 1 .. MaxDispatches : WorkerBegin(n)
    \/ \E n \in 1 .. MaxDispatches, choice \in Choices : WorkerStep(n, choice)
    \/ \E n \in 1 .. MaxDispatches : WorkerReturn(n)
    \/ FinishTick
    \/ JoinSystemThreads(FALSE)
    \/ JoinThread
    \/ JoinReturn
    \/ DestroyWorld

SpecSys == Init /\ [][NextSys]_vars

\* Dispatches whose callables assign to their components or create entities
\* under the registry mutex. The steps of the caller's thread:
MainStep ==
    \/ WaitForSystems
    \/ StartSystem
    \/ main.state = "iter" /\ threads[main.n].state = "idle" /\ SyncStep("touch")
    \/ SyncReturn
    \/ JoinThread
    \/ JoinReturn

\* the steps of the thread that executes dispatch n
ThreadStep(n) ==
    \/ WorkerBegin(n)
    \/ threads[n].state = "idle" /\ WorkerStep(n, "touch")
    \/ CallableEnter(n)
    \/ ThreadLock(n)
    \/ CallableBody(n)
    \/ WorkerReturn(n)

\* the caller prepares entities with the component the systems query
Prepare ==
    /\ calls < MaxPrepare
    /\ \/ CreateEntity
       \/ \E e \in 0 .. (MaxEntities - 1) : DestroyEntity(e)
       \/ \E e \in 0 .. (MaxEntities - 1) : AddComponent(e, 0, 1)
       \/ Flush

\* finishTick and joinSystemThreads are called while systems are recorded as running
NextLive ==
    \/ Prepare
    \/ \E sig \in Signatures, async \in BOOLEAN : TickSystem(sig, async, FALSE)
    \/ mRunningSystems # <<>> /\ FinishTick
    \/ mRunningSystems # <<>> /\ JoinSystemThreads(FALSE)
    \/ MainStep
    \/ \E n \in 1 .. MaxDispatches : ThreadStep(n)

\* every thread that can take a step eventually takes one
SpecLive ==
    /\ Init /\ [][NextLive]_vars
    /\ WF_vars(MainStep)
    /\ \A n \in 1 .. MaxDispatches : WF_vars(ThreadStep(n))

\* Synchronous, sequential dispatches of a callable that creates an entity
\* with the components of the query on every invocation and never flushes.
NextSpawn ==
    \/ ApiCallSys
    \/ \E sig \in Signatures : TickSystem(sig, FALSE, FALSE)
    \/ StartSystem
    \/ SyncStep("spawn")
    \/ SyncReturn

SpecSpawn == Init /\ [][NextSpawn]_vars

\* Synchronous, sequential dispatches of callables that only assign to their
\* components: nothing changes the registry while an iteration is under way.
NextSeq ==
    \/ ApiCallSys
    \/ \E sig \in Signatures : TickSystem(sig, FALSE, FALSE)
    \/ StartSystem
    \/ SyncStep("touch")
    \/ SyncReturn

SpecSeq == Init /\ [][NextSeq]_vars

\* Dispatches with parallelFor = true, one tick after the other: the caller
\* dispatches the next system when no system thread is left running.
NextPar ==
    \/ ApiCallSys
    \/ \E sig \in Signatures, async \in BOOLEAN :
           mRunningSystems = <<>> /\ TickSystem(sig, async, TRUE)
    \/ StartSystem
    \/ \E n \in 1 .. MaxDispatches : ParTake(n)
    \/ \E n \in 1 .. MaxDispatches, e \in 0 .. (MaxEntities - 1), choice \in Choices :
           ParInvoke(n, e, choice)
    \/ SyncReturn
    \/ \E n \in 1 .. MaxDispatches : WorkerBegin(n)
    \/ \E n \in 1 .. MaxDispatches : WorkerReturn(n)
    \/ FinishTick
    \/ JoinThread
    \/ JoinReturn

SpecPar == Init /\ [][NextPar]_vars

\* ================================================================ claims
Occupied(c, e) == mPools[c].alloc /\ PoolHas(mPools[c], e)

\* C1: between calls, for every entity id e below the entity count and every
\* component type c: hasComponents<c>(e) iff bit c is set in mask(e) iff the
\* pool of c has slot e occupied.
C1_MaskMatchesPools ==
    pc = "run" =>
        \A e \in Ids, c \in Comps :
            /\ hasComponents(World, e, {c}) <=> c \in mComponentMasks[e]
            /\ c \in mComponentMasks[e] <=> Occupied(c, e)

\* C6: createEntity returns the smallest id of the free list when the free list
\* is non-empty, leaving the entity count unchanged, and otherwise returns the
\* entity count as a new trailing id.
C6_CreateReturnsSmallestFree ==
    last.op = "create" =>
        IF last.free0 # <<>>
        THEN /\ last.ret = Min(PQElems(last.free0))
             /\ Size(mComponentMasks) = last.count0
        ELSE /\ last.ret = last.count0
             /\ Size(mComponentMasks) = last.count0 + 1

\* a create that had two different recycled ids to choose from
C6_Witness ==
    /\ last.op = "create"
    /\ last.ok
    /\ Cardinality(PQElems(last.free0)) >= 2

\* C7: the free list holds no live id, and when it is non-empty its minimum is
\* the smallest id below the entity count that is not live.
C7_FreeListHoldsDeadIds ==
    /\ PQElems(mEntityIdFreeList) \cap live = {}
    /\ mEntityIdFreeList # <<>> =>
           Min(PQElems(mEntityIdFreeList)) = Min({e \in Ids : e \notin live})

\* a create has just recycled an id and another dead id is still in the free list
C7_Witness ==
    /\ last.op = "create"
    /\ last.free0 # <<>>
    /\ mEntityIdFreeList # <<>>
    /\ live # {}

\* C8: after destroyEntity(e) on a live e: mask(e) is 0, hasComponents<c>(e) is
\* false for every c, the slot of e is unoccupied in every pool whose bit was
\* set before the call, and e is on the free list.
C8_DestroyClearsEntity ==
    last.op = "destroy" =>
        /\ mComponentMasks[last.e] = {}
        /\ \A c \in Comps : ~hasComponents(World, last.e, {c})
        /\ \A c \in last.mask0 : ~Occupied(c, last.e)
        /\ last.e \in PQElems(mEntityIdFreeList)

\* C9: after addComponent<c>(e, v) and removeComponent<c>(e) on a live e that had
\* no c, hasComponents<c>(e) is false; a following addComponent<c>(e, v2) fails
\* no assertion and getComponent<c>(e) then yields v2.
C9_AddRemoveAdd ==
    /\ rt = 2 => ~hasComponents(World, last.e, {last.c})
    /\ rt = 3 => /\ last.ok
                 /\ getComponent(World, last.e, last.c).ok
                 /\ getComponent(World, last.e, last.c).ret = last.v

\* C2: a dispatch S iterates only after every asynchronous system R dispatched
\* before it whose write mask meets the read or write mask of S has completed
\* and been joined.
C2_ConflictingSystemJoinedFirst ==
    \A i, j \in 1 .. Len(dispatches) :
        /\ i < j
        /\ dispatches[i].async
        /\ dispatches[i].writeMask \cap FullMask(dispatches[j]) # {}
        /\ dispatches[j].state # "wait"
        => dispatches[i].state = "joined"

\* a dispatch that had to wait for a working writer now processes an entity
C2_Witness ==
    \E i, j \in 1 .. Len(dispatches) :
        /\ i < j
        /\ dispatches[i].joinedBy = "waitForSystems"
        /\ dispatches[i].visited # {}
        /\ dispatches[j].visited # {}

\* C3: when finishTick returns the running list is empty, every worker
\* dispatched before has run to completion and been joined, and every live
\* entity is valid, those created by workers during the tick included.
C3_FinishTickIsBarrier ==
    last.op = "finishTick" =>
        /\ mRunningSystems = <<>>
        /\ \A n \in 1 .. Len(dispatches) :
               dispatches[n].state = IF dispatches[n].async THEN "joined" ELSE "done"
        /\ \A e \in live : mEntityValid[e]

\* finishTick joined a worker whose callable had created an entity in the tick
C3_Witness ==
    /\ last.op = "finishTick"
    /\ \E p \in matured :
           /\ dispatches[p[2]].async
           /\ dispatches[p[2]].joinedBy = "joinSystemThreads"
           /\ mEntityValid[p[1]]

\* C4: no callable is invoked on an entity that was created and not flushed since.
C4_UnflushedNeverVisited == ~visit.fresh

\* C5: the callable of a synchronous dispatch is not invoked on an entity it
\* created itself, and when a later synchronous dispatch returns it has visited
\* every entity that a synchronous callable created before the last finishTick
\* and that still carries the components of the query.
C5_VisibleAfterFinishTick ==
    /\ (visit.n # 0 /\ ~dispatches[visit.n].async) => ~visit.own
    /\ (last.op = "tickSystem" /\ ~dispatches[last.n].async /\ pc = "run") =>
           \A p \in matured :
               /\ ~dispatches[p[2]].async
               /\ \A c \in FullMask(dispatches[last.n]) : <<c, p[1]>> \in objects
               => p[1] \in dispatches[last.n].visited

\* a synchronous dispatch has visited an entity that an earlier synchronous
\* callable created
C5_Witness ==
    /\ last.op = "tickSystem"
    /\ ~dispatches[last.n].async
    /\ \E p \in matured : /\ ~dispatches[p[2]].async
                          /\ p[2] # last.n
                          /\ p[1] \in dispatches[last.n].visited

\* C10: when a World has been destroyed, every worker that was in the running
\* list has been joined and every component instance has been destructed.
C10_DestructorJoinsAndDestroys ==
    pc \in {"destroyed", "terminated"} =>
        /\ \A n \in 1 .. Len(dispatches) : dispatches[n].async => dispatches[n].state = "joined"
        /\ objects = {}

\* C11: after every add and every remove, in every pool, each Block has backing
\* storage (data is not null) iff at least one bit of its occupancy bitset is set.
C11_BlockStorageIffOccupied ==
    \A c \in Comps : \A b \in DOMAIN mPools[c].mBlocks :
        mPools[c].mBlocks[b].data <=> (mPools[c].mBlocks[b].occupied # {})

\* a remove has just emptied the second block of a pool, whose record remains
\* without storage, while the first block is still in use
C11_Witness ==
    /\ last.op = "remove"
    /\ last.ok
    /\ \E c \in Comps :
           /\ Size(mPools[c].mBlocks) = 2
           /\ ~mPools[c].mBlocks[1].data
           /\ mPools[c].mBlocks[0].data
           /\ getIndices(last.e)[1] = 1

\* the step is a call of addComponent<c>(e) with c present on e, or of
\* getComponent<c>(e) or removeComponent<c>(e) with c absent from e
MisuseStep ==
    /\ calls' = calls + 1
    /\ \/ last'.op = "add" /\ <<last'.c, last'.e>> \in objects
       \/ last'.op \in {"get", "remove"} /\ <<last'.c, last'.e>> \notin objects

\* C12 as stated: addComponent<T>(e) with T present, getComponent<T>(e) with T
\* absent and removeComponent<T>(e) with T absent each end in an assertion
\* failure, and masks, pools, valid flags and free list are as before the call.
C12_MisuseFailsUnchanged ==
    [][MisuseStep =>
        /\ pc' = "aborted"
        /\ UNCHANGED <<mComponentMasks, mPools, mEntityValid, mEntityIdFreeList>>]_vars

\* C12 amended: each of the three calls ends in an assertion failure, and masks,
\* valid flags, free list and the blocks of every pool are as before the call
\* (removeComponent may have created the still empty pool of T).
C12_MisuseFailsFast ==
    [][MisuseStep =>
        /\ pc' = "aborted"
        /\ UNCHANGED <<mComponentMasks, mEntityValid, mEntityIdFreeList>>
        /\ \A c \in Comps : mPools'[c].mBlocks = mPools[c].mBlocks]_vars

\* removeComponent<T>(e) with T absent has failed its assertion after it created
\* the pool of T
C12_Witness ==
    /\ pc = "aborted"
    /\ last.op = "remove"
    /\ <<last.c, last.e>> \notin objects
    /\ mPools[last.c] = NewPool

Elems(seq) == {seq[i] : i \in 1 .. Len(seq)}

\* C14: with no mutation of the registry during the iteration, a sequential
\* dispatch for full mask m calls tickEntity on exactly the ids e below the entity
\* count with valid(e) and (mask[e] & m) == m, each once, in strictly ascending
\* order: at every step the ids visited are the qualifying ids before the
\* iterator, and at the end all of them; when no id qualifies begin() is end()
\* and nothing is visited.
C14_VisitsMatchingAscending ==
    \A n \in 1 .. Len(dispatches) :
        LET d == dispatches[n]
            M == Matching(World, FullMask(d))
        IN  ((main.state = "iter" /\ main.n = n) \/ (last.op = "tickSystem" /\ last.n = n)) =>
                /\ \A i, j \in 1 .. Len(d.order) : i < j => d.order[i] < d.order[j]
                /\ d.idx = MAX_INDEX => Elems(d.order) = M
                /\ d.idx # MAX_INDEX =>
                       /\ d.idx \in M
                       /\ Elems(d.order) =
                              {e \in M : e < d.idx \/ (pc = "aborted" /\ e = d.idx)}
                /\ M = {} => (d.idx = MAX_INDEX /\ d.order = <<>>)

\* a sequential dispatch has returned after it visited two entities and skipped
\* nothing that qualifies
C14_Witness ==
    /\ last.op = "tickSystem"
    /\ Len(dispatches[last.n].order) >= 2
    /\ dispatches[last.n].state = "done"

\* C15: a dispatch with parallelFor = true calls tickEntity at most once on an
\* id, only on ids that matched when its for_each began, and when it has
\* completed on every one of them, whatever the order in which the workers of
\* the parallel for_each run; when no id matches it completes without a call.
C15_ParallelForExactlyOnce ==
    \A n \in 1 .. Len(dispatches) :
        LET d == dispatches[n]
        IN  d.parallelFor =>
                /\ \A i, j \in 1 .. Len(d.order) : i # j => d.order[i] # d.order[j]
                /\ Elems(d.order) \subseteq d.match0
                /\ d.state \in {"done", "joined"} => Elems(d.order) = d.match0

\* a parallel dispatch has completed after its workers processed two entities
\* in descending order of their ids
C15_Witness ==
    \E n \in 1 .. Len(dispatches) :
        /\ dispatches[n].parallelFor
        /\ dispatches[n].state = "done"
        /\ Len(dispatches[n].order) >= 2
        /\ dispatches[n].order[1] > dispatches[n].order[2]

RunningEntries(n) == {k \in 1 .. Len(mRunningSystems) : mRunningSystems[k].thread = n}

\* C16: a tickSystem with async = false iterates on the caller's thread, inside
\* the call, has processed every matching entity when it returns and never has
\* an entry in the running list; a tickSystem with async = true has returned
\* with exactly one RunningSystem for its thread, which carries its read and
\* write masks.
C16_SyncInlineAsyncRecorded ==
    \A n \in 1 .. Len(dispatches) :
        LET d == dispatches[n]
        IN  IF ~d.async
            THEN /\ RunningEntries(n) = {}
                 /\ d.state = "iter" => (main.state = "iter" /\ main.n = n)
                 /\ (last.op = "tickSystem" /\ last.n = n) =>
                        (d.state = "done" /\ d.idx = MAX_INDEX)
            ELSE /\ d.state \in {"begin", "iter", "done"} =>
                        /\ Cardinality(RunningEntries(n)) = 1
                        /\ \A k \in RunningEntries(n) :
                               /\ mRunningSystems[k].readMask = d.readMask
                               /\ mRunningSystems[k].writeMask = d.writeMask
                 /\ (last.op = "tickSystem" /\ last.n = n) =>
                        Cardinality(RunningEntries(n)) = 1

\* an asynchronous tickSystem has returned to the caller while its worker still
\* has entities to process
C16_Witness ==
    /\ last.op = "tickSystem"
    /\ main.state = "idle"
    /\ dispatches[last.n].async
    /\ dispatches[last.n].state = "iter"
    /\ dispatches[last.n].idx # MAX_INDEX
    /\ Cardinality(RunningEntries(last.n)) = 1

\* C17: no step of an iteration or dispatch calls tickEntity on an id that has
\* been destroyed and has not been returned by createEntity and flushed since:
\* neither on an id that is not live, nor on a recycled id that is not flushed.
C17_DestroyedNeverVisited == ~visit.gone /\ ~visit.fresh

\* C18 as stated: after an entity is destroyed through EntityHandle::destroy,
\* and until its id is recycled and given a component, the handle destroy was
\* called on and every copy of it return the destroyed id from getId and
\* convert to false with no assertion failure.
C18_StaleHandlesFalse ==
    (handles.target # None /\ ~handles.given) =>
        \A mId \in {handles.own, handles.copy} :
            /\ mId = handles.target
            /\ HandleBool(World, mId).ok
            /\ ~HandleBool(World, mId).ret

\* C18 amended: every other handle that refers to the entity still returns the
\* destroyed id from getId and converts to false with no assertion failure; the
\* handle destroy was called on holds INVALID_ENTITY.
C18_StaleCopiesFalse ==
    (handles.target # None /\ ~handles.given) =>
        /\ handles.copy = handles.target
        /\ HandleBool(World, handles.copy).ok
        /\ ~HandleBool(World, handles.copy).ret
        /\ handles.own = INVALID_ENTITY

\* the id of an entity that had a component and was destroyed through its
\* handle has been recycled and has no component yet
C18_Witness ==
    /\ handles.target # None
    /\ ~handles.given
    /\ last.op = "create"
    /\ last.ret = handles.target
    /\ \E c \in Comps : mPools[c].alloc

\* C19: at no time are two threads inside the locked section of createEntity,
\* destroyEntity, addComponent or removeComponent of the World, and the thread
\* inside is the one that holds mMutex.
C19_MutatorsMutuallyExclusive ==
    /\ Cardinality({t \in Threads : threads[t].state = "locked"}) <= 1
    /\ \A t \in Threads : threads[t].state = "locked" <=> mMutex = t

\* a thread is inside addComponent while another thread that has called
\* destroyEntity waits for the mutex
C19_Witness ==
    \E t, u \in Threads :
        /\ threads[t].state = "locked" /\ threads[t].op = "add"
        /\ threads[u].state = "enter" /\ threads[u].op = "destroy"

\* C20: component type ids are assigned 0, 1, 2, ... in the order of first
\* use; the first 64 distinct component types (ids 0 .. 63) are accepted and
\* the first use of a 65th distinct type ends in an assertion failure.
C20_IdsInFirstUseOrder ==
    /\ \A i \in 1 .. Len(firstUse) : typeIds[firstUse[i]] = i - 1
    /\ Len(firstUse) <= MAX_COMPONENTS => pc = "run"
    /\ Len(firstUse) = MAX_COMPONENTS + 1 => pc = "aborted"

\* the same statement for a program in which one translation unit alone
\* names component types
C20_IdsInFirstUseOrderOneUnit ==
    Len(firstUse) = idCounter[1] => C20_IdsInFirstUseOrder

\* C21: when createEntity returns id e, the valid flag of e is false and the
\* mask of e is 0, whatever flag and mask the slot had before the call.
C21_CreatedInvalidAndEmpty ==
    (last.op = "create" /\ last.ok) =>
        /\ ~mEntityValid[last.ret]
        /\ mComponentMasks[last.ret] = {}

\* createEntity has recycled a slot whose valid flag was set and whose mask
\* was not 0
C21_Witness ==
    /\ last.op = "create"
    /\ last.ok
    /\ last.free0 # <<>>
    /\ last.valid0
    /\ last.mask0 # {}

\* C22: starting from an empty world, after any sequence of createEntity and
\* destroyEntity calls (destroy only on live ids), the entity count is at most
\* the largest number of entities that were live at the same time so far.
C22_CountAtMostPeakLive == Size(mComponentMasks) <= peak

\* a create has recycled an id while fewer entities were live than at the
\* peak, and an id is still left in the free list
C22_Witness ==
    /\ last.op = "create"
    /\ last.free0 # <<>>
    /\ mEntityIdFreeList # <<>>
    /\ Cardinality(live) < peak
    /\ Size(mComponentMasks) = peak

\* the step is a call of flush()
FlushStep == calls' = calls + 1 /\ last'.op = "flush"

\* the step is a call of flush(id)
FlushIdStep == calls' = calls + 1 /\ last'.op = "flushId"

\* C23: flush() and flush(id) leave every mask, every pool, the free list and
\* the running list unchanged, and flush(id) leaves the valid flag of every
\* other id unchanged; flush() is idempotent: it sets every valid flag, and
\* called in a state where every flag is set (the state after a flush()) it
\* changes nothing.
C23_FlushTouchesOnlyValid ==
    [][/\ (FlushStep \/ FlushIdStep) =>
              /\ UNCHANGED <<mComponentMasks, mPools, mEntityIdFreeList, mRunningSystems>>
              /\ DOMAIN mEntityValid' = DOMAIN mEntityValid
       /\ FlushStep =>
              /\ \A i \in DOMAIN mEntityValid : mEntityValid'[i]
              /\ (\A i \in DOMAIN mEntityValid : mEntityValid[i]) => mEntityValid' = mEntityValid
       /\ FlushIdStep =>
              /\ mEntityValid'[last'.e]
              /\ \A i \in DOMAIN mEntityValid : i # last'.e => mEntityValid'[i] = mEntityValid[i]
      ]_vars

\* flush() has been called in a state that a flush() had left, with a
\* component in a pool and an id in the free list
C23_Witness ==
    /\ last.op = "flush"
    /\ last.valid0
    /\ Size(mEntityValid) >= 2
    /\ objects # {}
    /\ mEntityIdFreeList # <<>>

\* the registry and the pools after the step
WorldAfter == [masks |-> mComponentMasks', valid |-> mEntityValid', free |-> mEntityIdFreeList',
               pools |-> mPools', objects |-> objects', live |-> live', fresh |-> fresh',
               spawned |-> spawned', matured |-> matured', peak |-> peak']

\* the step is a World call of the caller
ApiStep == calls' = calls + 1

\* the call of the step targets component c of entity e
Targets(e, c) ==
    \/ last'.op \in {"add", "remove"} /\ last'.e = e /\ last'.c = c
    \/ last'.op = "destroy" /\ last'.e = e

\* C24: after addComponent<c>(e, v) on a live e without c, getComponent<c>(e)
\* yields v; and whatever getComponent<c>(e) yields, it yields the same after
\* every add, remove, create, destroy or flush that targets another entity or
\* another component type.
C24_ComponentValueStable ==
    [][ApiStep =>
          /\ (last'.op = "add" /\ last'.ok) =>
                 /\ getComponent(WorldAfter, last'.e, last'.c).ok
                 /\ getComponent(WorldAfter, last'.e, last'.c).ret = last'.v
          /\ \A e \in Ids, c \in Comps :
                 (getComponent(World, e, c).ok /\ ~Targets(e, c)) =>
                     /\ getComponent(WorldAfter, e, c).ok
                     /\ getComponent(WorldAfter, e, c).ret = getComponent(World, e, c).ret
      ]_vars

\* a component constructed from 2 is still 2 after the component of the same
\* type in the neighbouring slot of its block was removed
C24_Witness ==
    /\ last.op = "remove"
    /\ last.ok
    /\ \E e \in Ids :
           /\ e # last.e
           /\ getIndices(e)[1] = getIndices(last.e)[1]
           /\ getComponent(World, e, last.c).ok
           /\ getComponent(World, e, last.c).ret = 2

\* the thread of dispatch n is executing the system: an asynchronous worker
\* that has not returned, or a synchronous dispatch iterating on the caller's thread
Executing(n) == dispatches[n].state \in {"begin", "iter"}

\* C25: whenever two systems execute concurrently, the write mask of neither
\* meets the read-or-write mask of the other; in particular no system that
\* writes a component runs while an earlier asynchronous system that reads
\* that component is still running.
C25_NoConcurrentConflict ==
    \A i, j \in 1 .. Len(dispatches) :
        (i # j /\ Executing(i) /\ Executing(j)) =>
            dispatches[i].writeMask \cap FullMask(dispatches[j]) = {}

\* the step is a call of createEntity
CreateStep == calls' = calls + 1 /\ last'.op = "create"

\* C26: createEntity never returns an id that is live at the time of the call,
\* for any sequence of createEntity and destroyEntity calls on ids created
\* before, destroyEntity on an id that is already destroyed included.
C26_CreateNeverReturnsLive == [][CreateStep => last'.ret \notin live]_vars

\* C27: when createEntity returns id e, no component pool has slot e occupied,
\* after any sequence of calls in which every addComponent targeted an id below
\* the entity count whose mask bit for the type was clear (addComponent on an
\* id that is destroyed at the time included).
C27_CreatedHasNoComponents ==
    (last.op = "create" /\ last.ok) => \A c \in Comps : ~Occupied(c, last.ret)

\* C28: while a dispatch iterates, every component of the query is present in
\* its pool for the entity the iterator yields (the assertions of getComponent
\* hold), in every state reached through addComponent, removeComponent,
\* createEntity, destroyEntity and flush calls that respect their preconditions.
C28_YieldedHasComponents ==
    \A n \in 1 .. Len(dispatches) :
        (dispatches[n].state = "iter" /\ dispatches[n].idx # MAX_INDEX) =>
            getAll(World, dispatches[n].idx, FullMask(dispatches[n]))

C30_ReadersNeverOverlapGrowth ==
    \A r, w \in Threads :
        ~ /\ threads[r].state = "reading"
          /\ threads[w].state = "locked"
          /\ threads[w].op = "create"
          /\ PQEmpty(mEntityIdFreeList)

\* C31: when the callables terminate, every call of tickSystem, finishTick and
\* joinSystemThreads eventually returns (unless a failed assertion ends the
\* program): the caller joining the system threads and the threads taking
\* mMutex in createEntity never wait for each other forever.
C31_CallsReturn == (main.state # "idle") ~> (main.state = "idle" \/ pc # "run")

\* the caller waits in join while one system thread holds mMutex inside
\* createEntity and another waits for it
C31_Witness ==
    /\ pc = "run"
    /\ main.state \in {"wait", "joinAll"}
    /\ \E a, b \in Threads :
           /\ threads[a].state = "locked" /\ mMutex = a
           /\ threads[b].state = "enter"
           /\ dispatches[a].async /\ dispatches[b].async

\* C32: a sequential dispatch whose callable creates a matching entity (with a
\* fresh or a recycled id) on every invocation and never flushes calls the
\* callable on strictly ascending ids that matched when the dispatch started:
\* at most once for each of them, so it terminates after at most that many
\* invocations.
C32_InvocationsBoundedByStart ==
    \A n \in 1 .. Len(dispatches) :
        LET d == dispatches[n]
        IN  /\ \A i, j \in 1 .. Len(d.order) : i < j => d.order[i] < d.order[j]
            /\ Elems(d.order) \subseteq d.match0
            /\ Len(d.order) <= Cardinality(d.match0)
            /\ d.state = "iter" => (d.idx = MAX_INDEX \/ d.idx \in d.match0)

\* a dispatch has returned after one invocation for each id that matched at its
\* start, although its callable created an entity with the components of the
\* query at an id beyond one the callable was invoked on
C32_Witness ==
    \E n \in 1 .. Len(dispatches) :
        /\ dispatches[n].state = "done"
        /\ dispatches[n].order # <<>>
        /\ Len(dispatches[n].order) = Cardinality(dispatches[n].match0)
        /\ \E e \in live, v \in dispatches[n].visited :
               /\ <<e, n>> \in spawned
               /\ e > v
               /\ hasComponents(World, e, FullMask(dispatches[n]))
               /\ ~isValid(World, e)

\* C33: a call of destroyEntity, removeComponent, addComponent, getComponent,
\* hasComponents, getComponentMask, getEntityHandle, flush(id) or isValid with
\* an id that is not below the entity count (the count itself included) fails
\* an assertion and leaves the masks, the valid flags, the free list and the
\* pools as they were.
C33_IdBeyondCountRejected ==
    [][(/\ ApiStep
        /\ last'.op \in BeyondOps \cup {"destroy"}
        /\ last'.e >= Size(mComponentMasks))
          => /\ pc' = "aborted"
             /\ UNCHANGED <<mComponentMasks, mEntityValid, mEntityIdFreeList, mPools>>
      ]_vars

\* the slot of entity e in a pool: whether it is occupied, and by what value
Slot(pool, e) ==
    IF pool.alloc /\ PoolHas(pool, e) THEN <<TRUE, PoolGet(pool, e)>> ELSE <<FALSE, Uninit>>

\* C34: addComponent<T>(e), removeComponent<T>(e) and destroyEntity(e) leave
\* unchanged the mask and every pool slot of every entity other than e, the
\* valid flag of every entity and the running list; addComponent<T>(e) and
\* removeComponent<T>(e) also leave unchanged the slots of e in the pools of
\* the types other than T, and the free list.
C34_FrameOfAddRemoveDestroy ==
    [][(ApiStep /\ last'.op \in {"add", "remove", "destroy"}) =>
          /\ DOMAIN mComponentMasks' = DOMAIN mComponentMasks
          /\ \A x \in Ids \ {last'.e} :
                 /\ mComponentMasks'[x] = mComponentMasks[x]
                 /\ \A c \in Comps : Slot(mPools'[c], x) = Slot(mPools[c], x)
          /\ mEntityValid' = mEntityValid
          /\ mRunningSystems' = mRunningSystems
          /\ last'.op \in {"add", "remove"} =>
                 /\ \A c \in Comps \ {last'.c} : Slot(mPools'[c], last'.e) = Slot(mPools[c], last'.e)
                 /\ mEntityIdFreeList' = mEntityIdFreeList
      ]_vars

\* an entity with a component was destroyed while another entity keeps a
\* component of the same type in the same block
C34_Witness ==
    /\ last.op = "destroy" /\ last.ok
    /\ last.mask0 # {}
    /\ \E x \in Ids \ {last.e}, c \in last.mask0 :
           /\ getIndices(x)[1] = getIndices(last.e)[1]
           /\ Slot(mPools[c], x)[1]

\* C35: for the type list of a dispatch, readMask is exactly the set of the
\* bits of the components listed as const, writeMask exactly the set of the
\* bits of the components listed as non-const, readMask | writeMask is the
\* full query mask, and const T has the bit of T.
C35_MasksSplitByConst ==
    LET args == query.components
        Bit(i) == typeIds[args[i].type]
    IN  /\ pc = "run"
        /\ \A i \in 1 .. Len(args) : Bit(i) # None
        /\ query.readMask = {Bit(i) : i \in {k \in 1 .. Len(args) : args[k].const}}
        /\ query.writeMask = {Bit(i) : i \in {k \in 1 .. Len(args) : ~args[k].const}}
        /\ query.readMask \cup query.writeMask = query.fullMask
        /\ query.fullMask = {Bit(i) : i \in 1 .. Len(args)}

\* the masks of a list that names one type as const T and as T, next to
\* another type
C35_Witness ==
    /\ \E i, j \in 1 .. Len(query.components) :
           /\ query.components[i].type = query.components[j].type
           /\ query.components[i].const /\ ~query.components[j].const
    /\ query.readMask \cap query.writeMask # {}
    /\ Len(firstUse) >= 2

\* C36: in a ComponentPool the component of entity e is in block
\* e / BLOCK_SIZE at offset e % BLOCK_SIZE; the number of Block records of a
\* pool never decreases (remove releases the storage of an emptied block and
\* keeps its record); has(e) is false, without an error, for every e whose
\* block index is beyond the block sequence.
C36_SlotsAndBlockRecords ==
    /\ [](\A c \in Comps :
             /\ \A e \in 0 .. (MaxEntities - 1) :
                    <<c, e>> \in objects <=>
                        /\ mPools[c].alloc
                        /\ e \div BlockSize < Size(mPools[c].mBlocks)
                        /\ (e % BlockSize) \in mPools[c].mBlocks[e \div BlockSize].occupied
             /\ \A e \in 0 .. (MaxEntities + BlockSize) :
                    e \div BlockSize >= Size(mPools[c].mBlocks) => PoolHas(mPools[c], e) = FALSE
             /\ \A b \in DOMAIN mPools[c].mBlocks :
                    mPools[c].mBlocks[b].data <=> mPools[c].mBlocks[b].occupied # {})
    /\ [][\A c \in Comps :
             /\ mPools[c].alloc => mPools'[c].alloc
             /\ Size(mPools'[c].mBlocks) >= Size(mPools[c].mBlocks)]_vars

\* the last component of the last block of a pool was removed: the storage of
\* the block is released and its record is still there
C36_Witness ==
    /\ last.op = "remove" /\ last.ok
    /\ last.e \div BlockSize >= 1
    /\ Size(mPools[last.c].mBlocks) = (last.e \div BlockSize) + 1
    /\ mPools[last.c].mBlocks[last.e \div BlockSize].occupied = {}
    /\ ~mPools[last.c].mBlocks[last.e \div BlockSize].data

\* C37: distinct component types have distinct ids, and a query for a type
\* that was queried before returns the id the type has, so that a mask bit
\* denotes one component type.
C37_TypeIdsDistinct ==
    /\ \A S, T \in Types :
           (S # T /\ typeIds[S] # None /\ typeIds[T] # None) => typeIds[S] # typeIds[T]
    /\ (last.op = "componentId" /\ last.ok) => last.ret = typeIds[last.c]

\* C38: get<T, true> on a live entity returns a component of the entity: after
\* the call the entity has T in its pool and its mask bit is set; on an
\* entity without T the component is a default-constructed one; on an entity
\* with T the call changes nothing (so a second call in a row has no effect).
C38_GetAddsIfAbsent ==
    [][(ApiStep /\ last'.op = "handleGet") =>
          /\ last'.ok /\ pc' = "run"
          /\ mPools'[last'.c].alloc /\ PoolHas(mPools'[last'.c], last'.e)
          /\ last'.c \in mComponentMasks'[last'.e]
          /\ last'.ret = PoolGet(mPools'[last'.c], last'.e)
          /\ <<last'.c, last'.e>> \notin objects => last'.ret = DefaultValue
          /\ <<last'.c, last'.e>> \in objects =>
                 UNCHANGED <<mComponentMasks, mEntityValid, mEntityIdFreeList, mPools>>
      ]_vars

====
